---------------------------- MODULE Spec2Model ----------------------------
(***************************************************************************)
(* State-machine model of the MEV bot's decision-and-dispatch pipeline:    *)
(* the circuit breaker (risk/CircuitBreaker), the opportunity handler      *)
(* (core/MEVBot.handleOpportunity), the execution engine (core/Executor),  *)
(* the chain event monitor (core/Monitor) and the risk manager             *)
(* (risk/RiskManager).                                                     *)
(*                                                                         *)
(* Every async function is cut at its awaits: one action per synchronous   *)
(* stretch between two awaits, since the JavaScript event loop runs such a *)
(* stretch without interleaving.                                           *)
(***************************************************************************)
EXTENDS Integers, Sequences, FiniteSets, TLC

(***************************************************************************)
(* Circuit breaker: state and configuration                                *)
(***************************************************************************)
VARIABLES
    now,                  \* Date.now(), in minutes since construction
    state,                \* CircuitBreaker.state
    failures,             \* CircuitBreaker.failures
    consecutiveFailures,  \* CircuitBreaker.consecutiveFailures
    lastFailureTime,      \* CircuitBreaker.lastFailureTime (-1: null)
    hourlyFailures,       \* timestamps of CircuitBreaker.hourlyFailures
    strategyFailures,     \* CircuitBreaker.strategyFailures
    timers,               \* due times of the pending setTimeout(attemptRecovery)
    lastEvent,            \* the event the last breaker operation emitted
    run,                  \* recordFailure calls in a row since CLOSED with
                          \* consecutiveFailures = 0 (history, for the claims)
    runHourly             \* whether a call of that run reached the hourly
                          \* threshold (history, for the claims)

cbVars == <<state, failures, consecutiveFailures, lastFailureTime,
            hourlyFailures, strategyFailures, timers, lastEvent, run,
            runHourly>>

CLOSED == "closed"
OPEN == "open"
HALF_OPEN == "half-open"

maxFailuresPerHour == 10
maxConsecutiveFailures == 5
cooldownMinutes == 30
strategyDisableThreshold == 20
\* evaluateCircuit's window, 60 * 60 * 1000 ms, in minutes
HourMinutes == 60

\* The clock advances in steps of one cooldown; MaxTicks steps are explored.
TickMinutes == cooldownMinutes
MaxTicks == 3
MaxTime == MaxTicks * TickMinutes
\* recordFailure is explored up to this value of the counter `failures`.
MaxFailures == 11

\* recordFailure(strategy = null): the strategies that callers may name.
NoStrategy == "null"
StrategyNames == {"arbitrage", "sandwich"}
\* What emit() was called with: 'tripped', 'recovery-attempt', 'closed',
\* 'reset', or nothing.
NoEvent == "none"

CBInit ==
    /\ state = CLOSED
    /\ failures = 0
    /\ consecutiveFailures = 0
    /\ lastFailureTime = -1
    /\ hourlyFailures = <<>>
    /\ strategyFailures = [s \in StrategyNames |-> 0]
    /\ timers = <<>>
    /\ lastEvent = NoEvent
    /\ run = 0
    /\ runHourly = FALSE

isTripped == state = OPEN

RecentFailures_KeepAll(hf, t) == hf

\* evaluateCircuit, first part: the entries younger than one hour.
RecentFailures(hf, t) == SelectSeq(hf, LAMBDA ts : ts > t - HourMinutes)

ConsecutiveLimitReached_Off(cf) == cf > maxConsecutiveFailures
ConsecutiveLimitReached(cf) == cf >= maxConsecutiveFailures

HourlyLimitReached(hf) == Len(hf) >= maxFailuresPerHour

\* evaluateCircuit, second part: whether trip() is called.
ShouldTrip(cf, hf) == ConsecutiveLimitReached(cf) \/ HourlyLimitReached(hf)

trip_NoGuard ==
    /\ state' = OPEN
    /\ lastEvent' = "tripped"
    /\ timers' = Append(timers, now + cooldownMinutes)

\* trip(reason): nothing when already OPEN; else OPEN, 'tripped' and a timer.
trip ==
    IF state = OPEN
    THEN lastEvent' = NoEvent /\ UNCHANGED <<state, timers>>
    ELSE /\ state' = OPEN
         /\ lastEvent' = "tripped"
         /\ timers' = Append(timers, now + cooldownMinutes)

\* The history variables of claim C3.
RunStarts == state = CLOSED /\ consecutiveFailures = 0

RunAfterFailure == IF RunStarts THEN 1 ELSE IF run > 0 THEN run + 1 ELSE 0

recordFailure(strategy) ==
    /\ failures' = failures + 1
    /\ consecutiveFailures' = consecutiveFailures + 1
    /\ lastFailureTime' = now
    /\ strategyFailures' = IF strategy = NoStrategy THEN strategyFailures
                           ELSE [strategyFailures EXCEPT ![strategy] = @ + 1]
    /\ hourlyFailures' = RecentFailures(Append(hourlyFailures, now), now)
    /\ IF ShouldTrip(consecutiveFailures + 1, hourlyFailures')
       THEN trip
       ELSE lastEvent' = NoEvent /\ UNCHANGED <<state, timers>>
    /\ run' = RunAfterFailure
    /\ runHourly' = ((~RunStarts /\ runHourly)
                        \/ HourlyLimitReached(hourlyFailures'))

close_KeepCount ==
    /\ state' = CLOSED
    /\ lastEvent' = "closed"
    /\ UNCHANGED consecutiveFailures

\* close(), called by recordSuccess in HALF_OPEN.
close ==
    /\ state' = CLOSED
    /\ consecutiveFailures' = 0
    /\ lastEvent' = "closed"

recordSuccess ==
    /\ IF state = HALF_OPEN
       THEN close
       ELSE consecutiveFailures' = 0 /\ lastEvent' = NoEvent /\ UNCHANGED state
    /\ run' = 0
    /\ runHourly' = FALSE
    /\ UNCHANGED <<failures, lastFailureTime, hourlyFailures, strategyFailures,
                   timers>>

attemptRecovery_NoGuard ==
    /\ timers /= <<>>
    /\ Head(timers) <= now
    /\ timers' = Tail(timers)
    /\ state' = HALF_OPEN
    /\ lastEvent' = "recovery-attempt"
    /\ run' = 0
    /\ runHourly' = FALSE
    /\ UNCHANGED <<failures, consecutiveFailures, lastFailureTime,
                   hourlyFailures, strategyFailures>>

\* The setTimeout callback of trip(): the oldest timer, once due.
attemptRecovery ==
    /\ timers /= <<>>
    /\ Head(timers) <= now
    /\ timers' = Tail(timers)
    /\ IF state /= OPEN
       THEN lastEvent' = NoEvent /\ UNCHANGED <<state, run, runHourly>>
       ELSE /\ state' = HALF_OPEN
            /\ lastEvent' = "recovery-attempt"
            /\ run' = 0
            /\ runHourly' = FALSE
    /\ UNCHANGED <<failures, consecutiveFailures, lastFailureTime,
                   hourlyFailures, strategyFailures>>

enable ==
    /\ state' = CLOSED
    /\ run' = 0
    /\ runHourly' = FALSE
    /\ lastEvent' = NoEvent
    /\ UNCHANGED <<failures, consecutiveFailures, lastFailureTime,
                   hourlyFailures, strategyFailures, timers>>

disable ==
    /\ state' = OPEN
    /\ run' = 0
    /\ runHourly' = FALSE
    /\ lastEvent' = NoEvent
    /\ UNCHANGED <<failures, consecutiveFailures, lastFailureTime,
                   hourlyFailures, strategyFailures, timers>>

reset ==
    /\ state' = CLOSED
    /\ failures' = 0
    /\ consecutiveFailures' = 0
    /\ hourlyFailures' = <<>>
    /\ strategyFailures' = [s \in StrategyNames |-> 0]
    /\ lastEvent' = "reset"
    /\ run' = 0
    /\ runHourly' = FALSE
    /\ UNCHANGED <<lastFailureTime, timers>>

\* Time passes; a timer that is due runs before the clock moves on.
TimerDue == timers /= <<>> /\ Head(timers) <= now

AdvanceClock ==
    /\ now < MaxTime
    /\ ~TimerDue
    /\ now' = now + TickMinutes

(***************************************************************************)
(* Executor: the per-wallet nonce counter                                  *)
(***************************************************************************)
VARIABLES
    nonces,        \* Executor.nonces: address -> next nonce (Absent: no entry)
    chainPending,  \* what getTransactionCount(address, 'pending') answers
    gnPc,          \* where each buildTransaction call stands in getNonce
    gnWallet,      \* the address each call asked for
    gnResult,      \* the nonce getNonce returned to each call
    gnPlan,        \* the plan each call builds with its nonce
    gnLog          \* the calls in the order getNonce returned to them

nonceVars == <<nonces, chainPending, gnPc, gnWallet, gnResult, gnPlan, gnLog>>

Absent == -1
Wallets == {"main", "burner"}
\* Concurrent buildTransaction calls, and the chain nonces explored.
NumCallers == 3
MaxChainNonce == 2
Callers == 1 .. NumCallers

\* The plans that take a nonce from getNonce: one transaction, the
\* frontrun/backrun pair of buildSandwichTxs, the transactions of buildBundle.
PlanKinds == {"standard", "sandwich", "bundle"}
\* opportunity.transactions.length of the bundles explored
BundleLength == 3

NonceInit ==
    /\ gnPlan = [c \in Callers |-> "standard"]
    /\ gnLog = <<>>
    /\ nonces = [w \in Wallets |-> Absent]
    /\ chainPending \in [Wallets -> 0 .. MaxChainNonce]
    /\ gnPc = [c \in Callers |-> "idle"]
    /\ gnWallet = [c \in Callers |-> "main"]
    /\ gnResult = [c \in Callers |-> Absent]

\* `this.nonces.get(address) || await ...`: an entry that is missing or 0 is
\* falsy and sends the call to the chain.
HasLocalNonce(w) == nonces[w] /= Absent /\ nonces[w] /= 0

\* getNonce up to its await: with a local entry it reserves and returns at
\* once, without one it asks the chain and yields.
GetNonceCall(c, w) ==
    /\ gnPc[c] = "idle"
    /\ gnWallet' = [gnWallet EXCEPT ![c] = w]
    /\ IF HasLocalNonce(w)
       THEN /\ nonces' = [nonces EXCEPT ![w] = @ + 1]
            /\ gnResult' = [gnResult EXCEPT ![c] = nonces[w]]
            /\ gnPc' = [gnPc EXCEPT ![c] = "done"]
            /\ gnLog' = Append(gnLog, c)
       ELSE /\ gnPc' = [gnPc EXCEPT ![c] = "awaitChain"]
            /\ UNCHANGED <<nonces, gnResult, gnLog>>
    /\ UNCHANGED chainPending

\* getNonce after its await: the chain's answer is stored plus one and
\* returned, whatever the map holds by now.
GetNonceResume(c) ==
    /\ gnPc[c] = "awaitChain"
    /\ nonces' = [nonces EXCEPT ![gnWallet[c]] = chainPending[gnWallet[c]] + 1]
    /\ gnResult' = [gnResult EXCEPT ![c] = chainPending[gnWallet[c]]]
    /\ gnPc' = [gnPc EXCEPT ![c] = "done"]
    /\ gnLog' = Append(gnLog, c)
    /\ UNCHANGED <<gnWallet, chainPending, gnPlan>>

\* buildTransaction or buildBundle calling getNonce for its plan.
BuildPlan(c, w, plan) ==
    /\ GetNonceCall(c, w)
    /\ gnPlan' = [gnPlan EXCEPT ![c] = plan]

\* The nonces the transactions of a plan carry: nonce, nonce + 1 for a
\* sandwich, nonce + i for the i-th transaction of a bundle.
PlanNonces(c) ==
    CASE gnPlan[c] = "standard" -> {gnResult[c]}
      [] gnPlan[c] = "sandwich" -> {gnResult[c], gnResult[c] + 1}
      [] gnPlan[c] = "bundle" -> gnResult[c] .. gnResult[c] + BundleLength - 1

resetNonce(w) ==
    /\ nonces[w] /= Absent
    /\ nonces' = [nonces EXCEPT ![w] = Absent]
    /\ UNCHANGED <<chainPending, gnPc, gnWallet, gnResult, gnPlan, gnLog>>

(***************************************************************************)
(* MEVBot.handleOpportunity and Executor.execute                           *)
(***************************************************************************)
VARIABLES
    minProfitETH,  \* config.strategies[..].minProfitETH, in milli-ETH
    hPc,           \* where each handleOpportunity call stands
    hPath,         \* the dispatch path Executor.execute entered for the call
    hExpired,      \* whether opportunity.expiresAt < now at the breaker check
    hSim,          \* what Executor.simulate returned to the call
    hResult,       \* result.success of Executor.execute for the call
    hReports,      \* the call's recordSuccess / recordFailure reports
    hFate,         \* how the call ended
    hReason        \* the reason the call's rejection or failure carries

botVars == <<minProfitETH, hPc, hPath, hExpired, hSim, hResult, hReports,
             hFate, hReason>>

\* Concurrent handleOpportunity calls; a call that has returned makes room
\* for the next opportunity.
NumHandlers == 2
Handlers == 1 .. NumHandlers
\* New opportunities are taken while `failures` is below this, and the
\* pipeline's clock is explored for this many steps.
MaxBotFailures == 6
MaxBotTicks == 1

\* The dispatch paths of Executor.execute, by opportunity.type and
\* opportunity.requiresBundle.
Kinds == {"sandwich", "flashloan", "bundle", "standard"}
NoReason == "undefined"
NoSim == [success |-> FALSE, profit |-> Absent]
NoReports == [success |-> 0, failure |-> 0]
\* parseEther('0.001'), the minimum when the strategy configures none
DefaultMinProfit == 1

BotInit ==
    /\ minProfitETH \in {0, DefaultMinProfit}
    /\ hPc = [h \in Handlers |-> "idle"]
    /\ hPath = [h \in Handlers |-> "none"]
    /\ hExpired = [h \in Handlers |-> FALSE]
    /\ hSim = [h \in Handlers |-> NoSim]
    /\ hResult = [h \in Handlers |-> "none"]
    /\ hReports = [h \in Handlers |-> NoReports]
    /\ hFate = [h \in Handlers |-> "none"]
    /\ hReason = [h \in Handlers |-> NoReason]

\* An opportunity as a strategy emits it: expiresAt, which may have passed.
Opportunities == [expiresAt : {now - 1, now + 1}]

\* simulateTransaction's results: it never sets `profit`.
SimulateTransactionResults == {[success |-> TRUE, profit |-> Absent],
                               [success |-> FALSE, profit |-> Absent]}

\* Executor.simulate: `result.profit || BigNumber.from(0)`.
simulate(result) ==
    [success |-> result.success,
     profit |-> IF result.profit = Absent THEN 0 ELSE result.profit]

PassesGate_NoProfitCheck(sim, minProfit) == sim.success

\* Executor.execute, lines 39-61: the two returns before the dispatch.
PassesGate(sim, minProfit) == sim.success /\ ~(sim.profit < minProfit)

GateReason(sim) == IF ~sim.success THEN "Simulation failed"
                   ELSE "Profit below minimum threshold"

\* The end of a call.
Return(h, fate, reason) ==
    /\ hPc' = [hPc EXCEPT ![h] = "done"]
    /\ hFate' = [hFate EXCEPT ![h] = fate]
    /\ hReason' = [hReason EXCEPT ![h] = reason]
    /\ hSim' = [hSim EXCEPT ![h] = NoSim]

\* No call has just returned: a returned call's record is dropped before
\* the pipeline goes on, so that it is seen once, as the call left it.
NoneReturned == \A h \in Handlers : hPc[h] /= "done"

\* The catch block of handleOpportunity: recordFailure, then return.
Catch(h) ==
    /\ recordFailure(NoStrategy)
    /\ hReports' = [hReports EXCEPT ![h].failure = @ + 1]
    /\ Return(h, hFate[h], hReason[h])

\* The else branch of handleOpportunity: recordFailure, then the await of
\* db.recordFailedTrade.
FailureBranch(h, reason) ==
    /\ recordFailure(NoStrategy)
    /\ hReports' = [hReports EXCEPT ![h].failure = @ + 1]
    /\ hResult' = [hResult EXCEPT ![h] = "failure"]
    /\ hFate' = [hFate EXCEPT ![h] = "executed"]
    /\ hReason' = [hReason EXCEPT ![h] = reason]
    /\ hPc' = [hPc EXCEPT ![h] = "recordFailed"]
    /\ hSim' = [hSim EXCEPT ![h] = NoSim]

\* handleOpportunity up to its first await: the breaker check.
HandleOpportunity(h, opp) ==
    /\ hPc[h] = "idle"
    /\ \A g \in Handlers : g < h => hPc[g] /= "idle"
    /\ failures < MaxBotFailures
    /\ hExpired' = [hExpired EXCEPT ![h] = opp.expiresAt < now]
    /\ IF isTripped
       THEN Return(h, "skipped", NoReason)
       ELSE /\ hPc' = [hPc EXCEPT ![h] = "assess"]
            /\ hFate' = [hFate EXCEPT ![h] = "none"]
            /\ hReason' = [hReason EXCEPT ![h] = NoReason]
            /\ UNCHANGED hSim
    /\ UNCHANGED <<cbVars, minProfitETH, hPath, hResult, hReports>>

\* assessOpportunity has resolved: a rejection goes to the await of
\* db.recordRejectedOpportunity; an approval is logged (formatEther throws on
\* a missing expectedProfit) and Executor.execute starts, up to the first
\* await of buildTransaction.
AssessReturns(h, assessment, logThrows) ==
    /\ hPc[h] = "assess"
    /\ IF ~assessment.approved
       THEN /\ hPc' = [hPc EXCEPT ![h] = "recordRejected"]
            /\ hFate' = [hFate EXCEPT ![h] = "rejected"]
            /\ hReason' = [hReason EXCEPT ![h] = assessment.reason]
            /\ UNCHANGED <<cbVars, hReports, hSim>>
       ELSE IF logThrows
       THEN /\ hFate' = [hFate EXCEPT ![h] = "aborted"]
            /\ recordFailure(NoStrategy)
            /\ hReports' = [hReports EXCEPT ![h].failure = @ + 1]
            /\ hPc' = [hPc EXCEPT ![h] = "done"]
            /\ UNCHANGED <<hReason, hSim>>
       ELSE /\ hPc' = [hPc EXCEPT ![h] = "build"]
            /\ hFate' = [hFate EXCEPT ![h] = "executed"]
            /\ UNCHANGED <<cbVars, hReports, hReason, hSim>>
    /\ UNCHANGED <<minProfitETH, hPath, hExpired, hResult>>

\* db.recordRejectedOpportunity has settled.
RejectionRecorded(h, throws) ==
    /\ hPc[h] = "recordRejected"
    /\ IF throws
       THEN Catch(h)
       ELSE Return(h, hFate[h], hReason[h]) /\ UNCHANGED <<cbVars, hReports>>
    /\ UNCHANGED <<minProfitETH, hPath, hExpired, hResult>>

\* buildTransaction has settled (getGasPrice, getNonce): a throw ends
\* execute in its catch, else simulate awaits simulateTransaction.
BuildReturns(h, throws) ==
    /\ hPc[h] = "build"
    /\ IF throws
       THEN FailureBranch(h, "Execution error")
       ELSE /\ hPc' = [hPc EXCEPT ![h] = "simulate"]
            /\ UNCHANGED <<cbVars, hReports, hResult, hFate, hReason, hSim>>
    /\ UNCHANGED <<minProfitETH, hPath, hExpired>>

\* simulateTransaction has settled: the gate, then the dispatch path that
\* opportunity.type and opportunity.requiresBundle select (`kind`), up to
\* its first await.
SimulateReturns(h, result, kind) ==
    /\ hPc[h] = "simulate"
    /\ IF PassesGate(simulate(result), minProfitETH)
       THEN /\ hPc' = [hPc EXCEPT ![h] = "dispatch"]
            /\ hSim' = [hSim EXCEPT ![h] = simulate(result)]
            /\ hPath' = [hPath EXCEPT ![h] = kind]
            /\ UNCHANGED <<cbVars, hReports, hResult, hFate, hReason>>
       ELSE FailureBranch(h, GateReason(simulate(result))) /\ UNCHANGED hPath
    /\ UNCHANGED <<minProfitETH, hExpired>>

\* The dispatch path has settled and execute returns. On success
\* handleOpportunity adds result.profit to its total (a throw on a missing
\* profit goes to the catch) and awaits db.recordSuccessfulTrade.
DispatchReturns(h, outcome, profitThrows) ==
    /\ hPc[h] = "dispatch"
    /\ IF outcome = "success"
       THEN /\ hResult' = [hResult EXCEPT ![h] = "success"]
            /\ IF profitThrows
               THEN Catch(h)
               ELSE /\ hPc' = [hPc EXCEPT ![h] = "recordSuccessful"]
                    /\ hSim' = [hSim EXCEPT ![h] = NoSim]
                    /\ UNCHANGED <<cbVars, hReports, hFate, hReason>>
       ELSE FailureBranch(h, outcome)
    /\ UNCHANGED <<minProfitETH, hPath, hExpired>>

\* The record of a returned call is dropped.
Forget(h) ==
    /\ hPc[h] = "done"
    /\ hPc' = [hPc EXCEPT ![h] = "idle"]
    /\ hPath' = [hPath EXCEPT ![h] = "none"]
    /\ hExpired' = [hExpired EXCEPT ![h] = FALSE]
    /\ hResult' = [hResult EXCEPT ![h] = "none"]
    /\ hReports' = [hReports EXCEPT ![h] = NoReports]
    /\ hFate' = [hFate EXCEPT ![h] = "none"]
    /\ hReason' = [hReason EXCEPT ![h] = NoReason]
    /\ UNCHANGED <<cbVars, minProfitETH, hSim>>

\* db.recordSuccessfulTrade and metrics.recordTrade have settled.
SuccessRecorded(h, throws) ==
    /\ hPc[h] = "recordSuccessful"
    /\ IF throws
       THEN Catch(h)
       ELSE Return(h, hFate[h], hReason[h]) /\ UNCHANGED <<cbVars, hReports>>
    /\ UNCHANGED <<minProfitETH, hPath, hExpired, hResult>>

\* db.recordFailedTrade and metrics.recordTrade have settled.
FailureRecorded(h, throws) ==
    /\ hPc[h] = "recordFailed"
    /\ IF throws
       THEN Catch(h)
       ELSE Return(h, hFate[h], hReason[h]) /\ UNCHANGED <<cbVars, hReports>>
    /\ UNCHANGED <<minProfitETH, hPath, hExpired, hResult>>

\* What a dispatch path reports when it does not succeed: the reason of its
\* `success: false` return, or execute's catch.
DispatchFailures == {"Transaction reverted", "Execution error"}

(***************************************************************************)
(* Monitor: pending-transaction and block notifications                    *)
(***************************************************************************)
VARIABLES
    processedTxs,  \* Monitor.processedTxs
    pPc,           \* where each pendingSubscription call stands
    pHash,         \* the hash it was notified of
    bPc,           \* where each blockSubscription call stands
    bHash,         \* the transaction of the block it was notified of
    emitted,       \* 'transaction' events per hash since the set was cleared
    pRank,         \* arrival rank of each pendingSubscription call in flight
    pOvertaken,    \* whether a call that arrived later has emitted already
    outOfOrder     \* whether a call emitted after a later arrival did

orderVars == <<pRank, pOvertaken, outOfOrder>>

monVars == <<processedTxs, pPc, pHash, bPc, bHash, emitted, orderVars>>

Hashes == {"0xa1", "0xb2", "0xc3"}
\* Transactions sent to one of Monitor.targetContracts.
TargetHashes == {"0xa1", "0xb2"}
NoHash == "none"
NumPendingCalls == 2
PendingCalls == 1 .. NumPendingCalls
NumBlockCalls == 1
BlockCalls == 1 .. NumBlockCalls
\* Notifications of a hash are taken while fewer events than this were
\* emitted for it.
MaxEmitted == 2
\* cleanupCache clears processedTxs above this size.
ProcessedCeiling == 50000

MonInit ==
    /\ processedTxs = {}
    /\ pPc = [c \in PendingCalls |-> "idle"]
    /\ pHash = [c \in PendingCalls |-> NoHash]
    /\ bPc = [c \in BlockCalls |-> "idle"]
    /\ bHash = [c \in BlockCalls |-> NoHash]
    /\ emitted = [h \in Hashes |-> 0]
    /\ pRank = [c \in PendingCalls |-> 0]
    /\ pOvertaken = [c \in PendingCalls |-> FALSE]
    /\ outOfOrder = FALSE

\* The pendingSubscription calls that have not returned yet.
PendingInFlight == {c \in PendingCalls : pPc[c] /= "idle"}

\* Call c returns, having emitted or not: the calls that arrived after it
\* move up; with an emission the calls that arrived before it, for other
\* hashes, are overtaken.
PendingReturns(c, emits) ==
    /\ pRank' = [d \in PendingCalls |->
                    IF d = c THEN 0
                    ELSE IF pRank[d] > pRank[c] THEN pRank[d] - 1
                    ELSE pRank[d]]
    /\ pOvertaken' = [d \in PendingCalls |->
                         IF d = c THEN FALSE
                         ELSE pOvertaken[d]
                                  \/ /\ emits
                                     /\ d \in PendingInFlight
                                     /\ pRank[d] < pRank[c]
                                     /\ pHash[d] /= pHash[c]]
    /\ outOfOrder' = (outOfOrder \/ (emits /\ pOvertaken[c]))

isTargetTransaction(h) == h \in TargetHashes

\* emit('transaction') and emitSpecificEvents: counted for a hash that is in
\* the dedup set.
EmitTransaction(h) ==
    emitted' = [emitted EXCEPT ![h] = IF h \in processedTxs THEN @ + 1 ELSE @]

\* pendingSubscription up to the await of getTransaction.
PendingNotified(c, h) ==
    /\ pPc[c] = "idle"
    /\ \A d \in PendingCalls : d < c => pPc[d] /= "idle"
    /\ emitted[h] < MaxEmitted
    /\ IF h \in processedTxs
       THEN UNCHANGED <<pPc, pHash, pRank>>
       ELSE /\ pPc' = [pPc EXCEPT ![c] = "fetch"]
            /\ pHash' = [pHash EXCEPT ![c] = h]
            /\ pRank' = [pRank EXCEPT ![c] = Cardinality(PendingInFlight) + 1]
    /\ UNCHANGED <<processedTxs, bPc, bHash, emitted, pOvertaken, outOfOrder>>

\* getTransaction has settled; for a transaction to a target contract
\* processTransaction runs up to the await of decodeTransaction.
PendingFetched(c, found) ==
    /\ pPc[c] = "fetch"
    /\ IF found /\ isTargetTransaction(pHash[c])
       THEN /\ processedTxs' = processedTxs \cup {pHash[c]}
            /\ pPc' = [pPc EXCEPT ![c] = "decode"]
            /\ UNCHANGED <<pHash, orderVars>>
       ELSE /\ pPc' = [pPc EXCEPT ![c] = "idle"]
            /\ pHash' = [pHash EXCEPT ![c] = NoHash]
            /\ PendingReturns(c, FALSE)
            /\ UNCHANGED processedTxs
    /\ UNCHANGED <<bPc, bHash, emitted>>

\* decodeTransaction has settled for a pending transaction.
PendingDecoded(c, decoded) ==
    /\ pPc[c] = "decode"
    /\ IF decoded THEN EmitTransaction(pHash[c]) ELSE UNCHANGED emitted
    /\ pPc' = [pPc EXCEPT ![c] = "idle"]
    /\ pHash' = [pHash EXCEPT ![c] = NoHash]
    /\ PendingReturns(c, decoded)
    /\ UNCHANGED <<processedTxs, bPc, bHash>>

\* blockSubscription up to the await of getBlockWithTransactions.
BlockNotified(c, h) ==
    /\ bPc[c] = "idle"
    /\ emitted[h] < MaxEmitted
    /\ bPc' = [bPc EXCEPT ![c] = "getBlock"]
    /\ bHash' = [bHash EXCEPT ![c] = h]
    /\ UNCHANGED <<processedTxs, pPc, pHash, emitted, orderVars>>

\* The block has arrived: processTransaction(tx, 'block', block) up to the
\* await of decodeTransaction. Every transaction of Hashes is interesting
\* (it is sent to a target contract or carries calldata).
BlockFetched(c, found) ==
    /\ bPc[c] = "getBlock"
    /\ IF found
       THEN /\ processedTxs' = processedTxs \cup {bHash[c]}
            /\ bPc' = [bPc EXCEPT ![c] = "decode"]
            /\ UNCHANGED bHash
       ELSE /\ bPc' = [bPc EXCEPT ![c] = "idle"]
            /\ bHash' = [bHash EXCEPT ![c] = NoHash]
            /\ UNCHANGED processedTxs
    /\ UNCHANGED <<pPc, pHash, emitted, orderVars>>

\* decodeTransaction has settled for the block's transaction; the call
\* goes on to await Promise.allSettled.
BlockDecoded(c, decoded) ==
    /\ bPc[c] = "decode"
    /\ bPc' = [bPc EXCEPT ![c] = "cleanup"]
    /\ IF decoded THEN EmitTransaction(bHash[c]) ELSE UNCHANGED emitted
    /\ UNCHANGED <<processedTxs, pPc, pHash, bHash, orderVars>>

\* The 'block' event, then cleanupCache.
cleanupCache ==
    IF Cardinality(processedTxs) > ProcessedCeiling
    THEN /\ processedTxs' = {}
         /\ emitted' = [h \in Hashes |-> 0]
    ELSE UNCHANGED <<processedTxs, emitted>>

BlockDone(c) ==
    /\ bPc[c] = "cleanup"
    /\ bPc' = [bPc EXCEPT ![c] = "idle"]
    /\ bHash' = [bHash EXCEPT ![c] = NoHash]
    /\ cleanupCache
    /\ UNCHANGED <<pPc, pHash, orderVars>>

\* The reorg check found a new parent: the caches are cleared.
ReorgDetected ==
    /\ processedTxs /= {}
    /\ processedTxs' = {}
    /\ emitted' = [h \in Hashes |-> 0]
    /\ UNCHANGED <<pPc, pHash, bPc, bHash, orderVars>>

(***************************************************************************)
(* RiskManager.assessOpportunity                                           *)
(***************************************************************************)
VARIABLES
    rChecks,       \* what the eight checks resolve to for the opportunity
    rThrows,       \* whether one of the checks throws instead
    rMax,          \* config.maxRiskScore, Absent when not configured
    rPc,           \* where the assessOpportunity call stands
    rResult        \* the assessment it returned

riskVars == <<rChecks, rThrows, rMax, rPc, rResult>>

\* value / maxValue of a passed check, in halves.
Ratios == {0, 2}

\* A check that returns `value` and `maxValue`.
CappedCheck(w) ==
    {[passed |-> FALSE, weight |-> w, ratio |-> Absent]}
        \cup {[passed |-> TRUE, weight |-> w, ratio |-> r] : r \in Ratios}

\* A check that returns no `maxValue`.
PlainCheck(w) == {[passed |-> b, weight |-> w, ratio |-> Absent] : b \in BOOLEAN}

CheckNames == <<"dailyLossLimit", "positionSize", "gasPrice", "profitRatio",
                "tokenRisk", "dexRisk", "slippage", "liquidity">>

\* checkProfitRatio weighs 9 when the profit or gas cost is missing;
\* checkLiquidity passes with weight 3 when it cannot check.
CheckResults ==
    [dailyLossLimit : PlainCheck(10),
     positionSize : CappedCheck(8),
     gasPrice : CappedCheck(6),
     profitRatio : PlainCheck(7)
                       \cup {[passed |-> FALSE, weight |-> 9, ratio |-> Absent]},
     tokenRisk : CappedCheck(5),
     dexRisk : CappedCheck(4),
     slippage : CappedCheck(6),
     liquidity : PlainCheck(5)
                     \cup {[passed |-> TRUE, weight |-> 3, ratio |-> Absent]}]

\* The values of config.maxRiskScore explored.
MaxRiskScores == {Absent, 2, 7}

NoAssessment == [approved |-> FALSE, reason |-> "none", positionSize |-> "none"]

\* An opportunity that passes every check, far from the limits.
AllPassed ==
    [dailyLossLimit |-> [passed |-> TRUE, weight |-> 10, ratio |-> Absent],
     positionSize |-> [passed |-> TRUE, weight |-> 8, ratio |-> 0],
     gasPrice |-> [passed |-> TRUE, weight |-> 6, ratio |-> 0],
     profitRatio |-> [passed |-> TRUE, weight |-> 7, ratio |-> Absent],
     tokenRisk |-> [passed |-> TRUE, weight |-> 5, ratio |-> 0],
     dexRisk |-> [passed |-> TRUE, weight |-> 4, ratio |-> 0],
     slippage |-> [passed |-> TRUE, weight |-> 6, ratio |-> 0],
     liquidity |-> [passed |-> TRUE, weight |-> 5, ratio |-> Absent]]

\* The same opportunity with a gas price above maxGasPrice.
GasPriceTooHigh ==
    [AllPassed EXCEPT
        !.gasPrice = [passed |-> FALSE, weight |-> 6, ratio |-> Absent]]

RiskInit ==
    /\ rChecks = AllPassed
    /\ rThrows = FALSE
    /\ rMax = 7
    /\ rPc = "idle"
    /\ rResult = NoAssessment

ScoreTerm_LowPenalty(check) ==
    IF ~check.passed THEN check.weight * 8
    ELSE IF check.ratio /= Absent THEN check.weight * check.ratio * 5
    ELSE 0

\* calculateRiskScore, in halves: a failed check adds weight * 10, a passed
\* one weight * ratio * 5 when it has a value and a maxValue.
ScoreTerm(check) ==
    IF ~check.passed THEN check.weight * 20
    ELSE IF check.ratio /= Absent THEN check.weight * check.ratio * 5
    ELSE 0

\* The loop of calculateRiskScore over the first i checks.
RECURSIVE ScoreSum(_, _)
ScoreSum(checks, i) ==
    IF i = 0 THEN 0
    ELSE ScoreTerm(checks[CheckNames[i]]) + ScoreSum(checks, i - 1)

RECURSIVE WeightSum(_, _)
WeightSum(checks, i) ==
    IF i = 0 THEN 0
    ELSE checks[CheckNames[i]].weight + WeightSum(checks, i - 1)

totalScore(checks) == ScoreSum(checks, Len(CheckNames))

totalWeight(checks) == WeightSum(checks, Len(CheckNames))

\* Math.min(10, totalScore / totalWeight) < max; against undefined the
\* comparison is false.
ScoreBelow(checks, max) ==
    /\ max /= Absent
    /\ \/ 10 < max
       \/ totalScore(checks) < 2 * max * totalWeight(checks)

\* Math.min(10, totalScore / totalWeight) of `a` is at most that of `b`.
Min(x, y) == IF x < y THEN x ELSE y

RiskScoreLeq(a, b) ==
    Min(20 * totalWeight(a), totalScore(a)) * totalWeight(b)
        <= Min(20 * totalWeight(b), totalScore(b)) * totalWeight(a)

\* What a check returns when it fails: checkProfitRatio with weight 7 or 9,
\* checkLiquidity with weight 5, the others with their one weight.
FailedResults(n, check) ==
    IF n = "profitRatio"
    THEN {[passed |-> FALSE, weight |-> w, ratio |-> Absent] : w \in {7, 9}}
    ELSE IF n = "liquidity"
    THEN {[passed |-> FALSE, weight |-> 5, ratio |-> Absent]}
    ELSE {[passed |-> FALSE, weight |-> check.weight, ratio |-> Absent]}

\* The same opportunity scored again with one more check failing.
CheckFails(n, failed) ==
    /\ rPc \in {"idle", "rescored"}
    /\ rChecks[n].passed
    /\ failed \in FailedResults(n, rChecks[n])
    /\ rChecks' = [rChecks EXCEPT ![n] = failed]
    /\ rPc' = "rescored"
    /\ UNCHANGED <<rThrows, rMax, rResult>>

riskFactors(checks) ==
    SelectSeq(CheckNames, LAMBDA n : ~checks[n].passed)

\* The `reason` a failed check returns.
CheckReason(n, check) ==
    CASE n = "dailyLossLimit" -> "Daily loss limit reached"
      [] n = "positionSize" -> "Position size exceeds maximum"
      [] n = "gasPrice" -> "Gas price too high"
      [] n = "profitRatio" -> IF check.weight = 9
                              THEN "Invalid profit calculation"
                              ELSE "Profit ratio too low"
      [] n = "tokenRisk" -> "Token risk too high"
      [] n = "dexRisk" -> "DEX risk too high"
      [] n = "slippage" -> "Slippage too high"
      [] n = "liquidity" -> "Insufficient liquidity"

IsApproved_ScoreOnly(checks, max) == ScoreBelow(checks, max)

IsApproved(checks, max) ==
    Len(riskFactors(checks)) = 0 /\ ScoreBelow(checks, max)

\* The assessment returned: from the try block, or from the catch.
assessOpportunity(checks, throws, max) ==
    IF throws
    THEN [approved |-> FALSE, reason |-> "Risk assessment error",
          positionSize |-> "undefined"]
    ELSE [approved |-> IsApproved(checks, max),
          reason |-> IF IsApproved(checks, max) THEN "null"
                     ELSE IF Len(riskFactors(checks)) = 0 THEN "undefined"
                     ELSE CheckReason(Head(riskFactors(checks)),
                                      checks[Head(riskFactors(checks))]),
          positionSize |-> IF IsApproved(checks, max) THEN "size" ELSE "null"]

\* What assessOpportunity resolves to in the pipeline: for an opportunity that
\* passes every check and for one whose gas price is too high, with
\* maxRiskScore 7 or not configured, and when a check throws.
Assessments ==
    {assessOpportunity(c, t, mx) :
        c \in {AllPassed, GasPriceTooHigh}, t \in BOOLEAN, mx \in {Absent, 7}}

AssessOpportunity ==
    /\ rPc = "idle"
    /\ rPc' = "done"
    /\ rResult' = assessOpportunity(rChecks, rThrows, rMax)
    /\ UNCHANGED <<rChecks, rThrows, rMax>>

(***************************************************************************)
(* PositionSizer.calculatePositionSize, amounts in milli-ETH               *)
(***************************************************************************)
VARIABLES
    sIn,           \* the inputs of a calculatePositionSize call
    sPc,           \* where the call stands
    sResult        \* the position size it returned

sizerVars == <<sIn, sPc, sResult>>

\* parseEther('0.1')
minPositionSize == 100
\* getCurrentBalance: parseEther('10')
CurrentBalance == 10000
\* parseEther(config.maxPositionETH || '10') for the configurations explored
MaxPositionSizes == {50, 1000, 10000}

\* Math.floor(multiplier * 100) of each adjustment; Absent where the
\* adjustment is skipped.
SizerInputs ==
    [maxPositionSize : MaxPositionSizes,
     confidencePct : {Absent, 50, 200},
     profitPct : {80, 100, 120},
     riskPct : {13, 100},
     strategyPct : {50, 80, 100, 120},
     kellyPct : {Absent, 0, 25, 50},
     throws : BOOLEAN]

SizerInit ==
    /\ sIn = [maxPositionSize |-> 10000, confidencePct |-> Absent,
              profitPct |-> 100, riskPct |-> 100, strategyPct |-> 100,
              kellyPct |-> Absent, throws |-> FALSE]
    /\ sPc = "idle"
    /\ sResult = Absent

\* BigNumber mul(pct).div(100)
Scale(x, pct) == IF pct = Absent THEN x ELSE (x * pct) \div 100

calculateBasePosition(in, balance) ==
    Scale(Scale(Scale(balance, 5), in.confidencePct), in.profitPct)

ensureWithinBounds(positionSize, balance, max) ==
    LET capped == IF positionSize > max THEN max ELSE positionSize
        floored == IF capped < minPositionSize THEN minPositionSize ELSE capped
    IN  IF floored > (balance * 90) \div 100
        THEN (balance * 90) \div 100 ELSE floored

calculatePositionSize(in) ==
    IF in.throws THEN minPositionSize
    ELSE ensureWithinBounds(
             Scale(Scale(Scale(calculateBasePosition(in, CurrentBalance),
                               in.riskPct), in.strategyPct), in.kellyPct),
             CurrentBalance, in.maxPositionSize)

CalculatePositionSize ==
    /\ sPc = "idle"
    /\ sPc' = "done"
    /\ sResult' = calculatePositionSize(sIn)
    /\ UNCHANGED sIn

(***************************************************************************)
(* FlashbotsProvider.sendBundle                                            *)
(***************************************************************************)
VARIABLES
    fbInitialized, \* whether initialize() has set flashbotsProvider
    fbPc,          \* where the sendBundle call stands
    fbSim,         \* what flashbotsProvider.simulate resolved to
    fbSent,        \* sendRawBundle calls made by the call
    fbResult,      \* `success` of the object the call returned
    bundleStats    \* FlashbotsProvider.bundleStats

fbVars == <<fbInitialized, fbPc, fbSim, fbSent, fbResult, bundleStats>>

\* sendBundle calls are started while fewer bundles than this have been
\* submitted and fewer have failed.
MaxBundles == 3

NoBundleSim == [ran |-> FALSE, error |-> FALSE, firstRevert |-> FALSE]
\* The simulation responses: with or without an `error` key, with or
\* without a firstRevert.
BundleSims == [ran : {TRUE}, error : BOOLEAN, firstRevert : BOOLEAN]

FlashbotsInit ==
    /\ fbInitialized = TRUE
    /\ fbPc = "idle"
    /\ fbSim = NoBundleSim
    /\ fbSent = 0
    /\ fbResult = "none"
    /\ bundleStats = [submitted |-> 0, included |-> 0, failed |-> 0]

\* The catch block of sendBundle.
SendBundleCatch ==
    /\ bundleStats' = [bundleStats EXCEPT !.failed = @ + 1]
    /\ fbResult' = "false"
    /\ fbPc' = "done"

SimulationRejects_ErrorOnly(sim) == sim.error

\* `'error' in simulation || simulation.firstRevert`
SimulationRejects(sim) == sim.error \/ sim.firstRevert

\* sendBundle up to the await of flashbotsProvider.simulate.
SendBundle ==
    /\ fbPc \in {"idle", "done"}
    /\ bundleStats.submitted < MaxBundles
    /\ bundleStats.failed < MaxBundles
    /\ fbSim' = NoBundleSim
    /\ fbSent' = 0
    /\ IF ~fbInitialized
       THEN SendBundleCatch
       ELSE fbPc' = "simulate" /\ fbResult' = "none" /\ UNCHANGED bundleStats
    /\ UNCHANGED fbInitialized

\* simulate has settled: a rejected simulation returns, an accepted one is
\* logged (formatEther throws without a coinbaseDiff) and sendRawBundle is
\* called.
BundleSimulated(sim, throws, logThrows) ==
    /\ fbPc = "simulate"
    /\ IF throws
       THEN SendBundleCatch /\ UNCHANGED <<fbSim, fbSent>>
       ELSE /\ fbSim' = sim
            /\ IF SimulationRejects(sim)
               THEN /\ fbResult' = "false"
                    /\ fbPc' = "done"
                    /\ UNCHANGED <<fbSent, bundleStats>>
               ELSE IF logThrows
               THEN SendBundleCatch /\ UNCHANGED fbSent
               ELSE /\ fbSent' = fbSent + 1
                    /\ fbPc' = "send"
                    /\ UNCHANGED <<fbResult, bundleStats>>
    /\ UNCHANGED fbInitialized

\* sendRawBundle has settled; the call awaits bundleSubmission.wait().
BundleSubmitted(throws) ==
    /\ fbPc = "send"
    /\ IF throws
       THEN SendBundleCatch
       ELSE /\ bundleStats' = [bundleStats EXCEPT !.submitted = @ + 1]
            /\ fbPc' = "wait"
            /\ UNCHANGED fbResult
    /\ UNCHANGED <<fbInitialized, fbSim, fbSent>>

\* wait() has settled: 0 means included; otherwise getBundleStats is awaited.
BundleWaited(included, throws) ==
    /\ fbPc = "wait"
    /\ IF throws
       THEN SendBundleCatch
       ELSE IF included
       THEN /\ bundleStats' = [bundleStats EXCEPT !.included = @ + 1]
            /\ fbResult' = "true"
            /\ fbPc' = "done"
       ELSE /\ bundleStats' = [bundleStats EXCEPT !.failed = @ + 1]
            /\ fbPc' = "stats"
            /\ UNCHANGED fbResult
    /\ UNCHANGED <<fbInitialized, fbSim, fbSent>>

\* getBundleStats has settled (it catches its own errors).
BundleStatsFetched ==
    /\ fbPc = "stats"
    /\ fbResult' = "false"
    /\ fbPc' = "done"
    /\ UNCHANGED <<fbInitialized, fbSim, fbSent, bundleStats>>

(***************************************************************************)
(* MEVBot.handleStrategyError: stopping a strategy                         *)
(***************************************************************************)
VARIABLES
    stoppedStrategies  \* the strategies handleStrategyError has stopped

stratVars == <<stoppedStrategies>>

StratInit == stoppedStrategies = {}

shouldDisableStrategy(strategy) ==
    strategyFailures[strategy] >= strategyDisableThreshold

\* handleStrategyError(error, strategyName): the strategy's 'error' event.
handleStrategyError(strategyName) ==
    stoppedStrategies' = IF shouldDisableStrategy(strategyName)
                         THEN stoppedStrategies \cup {strategyName}
                         ELSE stoppedStrategies

(***************************************************************************)
(* ProviderManager: provider statistics and executeWithFallback            *)
(***************************************************************************)
VARIABLES
    pmRequests,    \* providerStats[name].requests
    pmErrors,      \* providerStats[name].errors
    pmHealthy,     \* providerStats[name].healthy
    pmMeasured,    \* whether providerStats[name].latency holds a measurement
    efPc,          \* where the executeWithFallback call stands
    efOrder,       \* its `providers`, the result of getSortedProviders
    efIdx,         \* the position of its loop in `providers`
    efLastError,   \* its lastError: the provider whose error it holds
    efResult,      \* how it ended
    efCalled,      \* the providers it has called, in call order (history)
    efHealthyAtSort \* providerStats[name].healthy when it sorted (history)

pmVars == <<pmRequests, pmErrors, pmHealthy, pmMeasured, efPc, efOrder, efIdx,
            efLastError, efResult, efCalled, efHealthyAtSort>>

\* this.providers in insertion order, the order of the configuration.
ProviderOrder == <<"primary", "backup">>
ProviderNames == {ProviderOrder[i] : i \in DOMAIN ProviderOrder}
\* The latency every call to a provider takes, in ms.
ProviderLatency == [n \in ProviderNames |-> IF n = "primary" THEN 150 ELSE 50]
\* The average used for a provider without a measurement.
DefaultLatency == 100
\* updateProviderStats judges the error rate above this many requests.
MinRequests == 10
\* Calls are explored while every provider has fewer requests than this.
MaxRequests == 11
NoProvider == "none"
NoResult == [kind |-> "none", of |-> NoProvider]

PMInit ==
    /\ pmRequests = [n \in ProviderNames |-> 0]
    /\ pmErrors = [n \in ProviderNames |-> 0]
    /\ pmHealthy = [n \in ProviderNames |-> TRUE]
    /\ pmMeasured = [n \in ProviderNames |-> FALSE]
    /\ efPc = "idle"
    /\ efOrder = <<>>
    /\ efIdx = 0
    /\ efLastError = NoProvider
    /\ efResult = NoResult
    /\ efCalled = <<>>
    /\ efHealthyAtSort = [n \in ProviderNames |-> TRUE]

\* errors / requests > 0.5
ErrorRateTooHigh(requests, errors) == 2 * errors > requests

\* updateProviderStats, line 435.
MarksUnhealthy(requests, errors) ==
    requests > MinRequests /\ ErrorRateTooHigh(requests, errors)

updateProviderStats(name, success) ==
    /\ pmRequests' = [pmRequests EXCEPT ![name] = @ + 1]
    /\ IF success
       THEN /\ pmMeasured' = [pmMeasured EXCEPT ![name] = TRUE]
            /\ UNCHANGED <<pmErrors, pmHealthy>>
       ELSE /\ pmErrors' = [pmErrors EXCEPT ![name] = @ + 1]
            /\ pmHealthy' = [pmHealthy EXCEPT ![name] =
                                @ /\ ~MarksUnhealthy(pmRequests[name] + 1,
                                                     pmErrors[name] + 1)]
            /\ UNCHANGED pmMeasured

\* getSortedProviders' comparator, by its sign. The error rates e/r are
\* compared as fractions: ea/ra < eb/rb iff ea * rb < eb * ra.
RateNum(n) == IF pmRequests[n] > 0 THEN pmErrors[n] ELSE 0
RateDen(n) == IF pmRequests[n] > 0 THEN pmRequests[n] ELSE 1
avgLatency(n) == IF pmMeasured[n] THEN ProviderLatency[n] ELSE DefaultLatency
Sign(x) == IF x < 0 THEN -1 ELSE IF x > 0 THEN 1 ELSE 0
Truth(b) == IF b THEN 1 ELSE 0

Compare_IgnoringHealth(a, b) ==
    IF RateNum(a) * RateDen(b) /= RateNum(b) * RateDen(a)
    THEN Sign(RateNum(a) * RateDen(b) - RateNum(b) * RateDen(a))
    ELSE Sign(avgLatency(a) - avgLatency(b))

Compare(a, b) ==
    IF pmHealthy[a] /= pmHealthy[b]
    THEN Truth(pmHealthy[b]) - Truth(pmHealthy[a])
    ELSE IF RateNum(a) * RateDen(b) /= RateNum(b) * RateDen(a)
    THEN Sign(RateNum(a) * RateDen(b) - RateNum(b) * RateDen(a))
    ELSE Sign(avgLatency(a) - avgLatency(b))

\* Array.prototype.sort is stable: equal providers keep their insertion
\* order.
getSortedProviders ==
    CHOOSE q \in [DOMAIN ProviderOrder -> ProviderNames] :
        /\ \A n \in ProviderNames : \E i \in DOMAIN q : q[i] = n
        /\ \A i, j \in DOMAIN q :
              i < j => \/ Compare(q[i], q[j]) < 0
                       \/ /\ Compare(q[i], q[j]) = 0
                          /\ \E k, l \in DOMAIN ProviderOrder :
                                /\ k < l
                                /\ ProviderOrder[k] = q[i]
                                /\ ProviderOrder[l] = q[j]

\* executeWithFallback up to the await of the first provider's call.
ExecuteWithFallback ==
    /\ efPc = "idle"
    /\ \A n \in ProviderNames : pmRequests[n] < MaxRequests
    /\ efOrder' = getSortedProviders
    /\ efIdx' = 1
    /\ efLastError' = NoProvider
    /\ efResult' = NoResult
    /\ efCalled' = <<getSortedProviders[1]>>
    /\ efHealthyAtSort' = pmHealthy
    /\ efPc' = "call"
    /\ UNCHANGED <<pmRequests, pmErrors, pmHealthy, pmMeasured>>

\* The awaited call has settled: a result is returned; an error is kept,
\* and the next provider is called or, after the last one, it is thrown.
ProviderSettles(success) ==
    /\ efPc = "call"
    /\ updateProviderStats(efOrder[efIdx], success)
    /\ IF success
       THEN /\ efResult' = [kind |-> "returned", of |-> efOrder[efIdx]]
            /\ efPc' = "done"
            /\ UNCHANGED <<efIdx, efLastError, efCalled>>
       ELSE /\ efLastError' = efOrder[efIdx]
            /\ IF efIdx < Len(efOrder)
               THEN /\ efIdx' = efIdx + 1
                    /\ efCalled' = Append(efCalled, efOrder[efIdx + 1])
                    /\ UNCHANGED <<efPc, efResult>>
               ELSE /\ efResult' = [kind |-> "threw", of |-> efOrder[efIdx]]
                    /\ efPc' = "done"
                    /\ UNCHANGED <<efIdx, efCalled>>
    /\ UNCHANGED <<efOrder, efHealthyAtSort>>

\* The caller has taken the result; the next call may start.
FallbackReturned ==
    /\ efPc = "done"
    /\ efPc' = "idle"
    /\ efOrder' = <<>>
    /\ efIdx' = 0
    /\ efLastError' = NoProvider
    /\ efResult' = NoResult
    /\ efCalled' = <<>>
    /\ efHealthyAtSort' = [n \in ProviderNames |-> TRUE]
    /\ UNCHANGED <<pmRequests, pmErrors, pmHealthy, pmMeasured>>

\* performHealthChecks, one provider's check after its awaits: the provider
\* is in step ("ok"), more than 5 blocks off ("behind"), or its
\* getBlockNumber threw ("throws").
HealthCheckOutcomes == {"ok", "behind", "throws"}

performHealthCheck(name, outcome) ==
    /\ pmHealthy' = [pmHealthy EXCEPT ![name] = (outcome = "ok")]
    /\ pmMeasured' = [pmMeasured EXCEPT ![name] = @ \/ outcome /= "throws"]
    /\ UNCHANGED <<pmRequests, pmErrors, efPc, efOrder, efIdx, efLastError,
                   efResult, efCalled, efHealthyAtSort>>

(***************************************************************************)
(* The breaker under MEVBot.start, MEVBot.stop and reset                   *)
(***************************************************************************)
VARIABLES
    openSince  \* when trip() opened the breaker, while that OPEN lasts
               \* (-1: not OPEN, or OPEN by disable) (history)

manVars == <<openSince>>

ManInit == openSince = -1

\* openSince after a breaker operation.
OpenSinceAfter ==
    IF state' /= OPEN THEN -1
    ELSE IF lastEvent' = "tripped" THEN now
    ELSE IF state = OPEN THEN openSince
    ELSE -1

(***************************************************************************)
(* Admissions to Executor.execute while the breaker is HALF_OPEN           *)
(***************************************************************************)
VARIABLES
    halfOpenAdmitted  \* the calls that entered Executor.execute since the
                      \* breaker became HALF_OPEN, counted up to 2 (history)

admVars == <<halfOpenAdmitted>>

AdmInit == halfOpenAdmitted = 0

\* halfOpenAdmitted after a step of the pipeline.
AdmittedAfter ==
    IF state /= HALF_OPEN \/ state' /= HALF_OPEN THEN 0
    ELSE IF \E h \in Handlers : hPc[h] = "assess" /\ hPc'[h] = "build"
    THEN IF halfOpenAdmitted < 2 THEN halfOpenAdmitted + 1 ELSE 2
    ELSE halfOpenAdmitted

(***************************************************************************)
(* Executor.execute: what becomes of the plan built for a call             *)
(***************************************************************************)
VARIABLES
    planFate  \* per buildTransaction call: whether its plan was submitted
              \* or the call returned before submitting it

fateVars == <<planFate>>

FateInit == planFate = [c \in Callers |-> "none"]

\* execute returning `Simulation failed` or `Profit below minimum
\* threshold` (or catching an error) after buildTransaction took the nonce:
\* nothing on these paths touches this.nonces.
PlanAbandoned(c) ==
    /\ gnPc[c] = "done"
    /\ planFate[c] = "none"
    /\ planFate' = [planFate EXCEPT ![c] = "abandoned"]
    /\ UNCHANGED nonceVars

\* execute reaching its dispatch: the plan's transactions are submitted.
PlanSubmitted(c) ==
    /\ gnPc[c] = "done"
    /\ planFate[c] = "none"
    /\ planFate' = [planFate EXCEPT ![c] = "submitted"]
    /\ UNCHANGED nonceVars

(***************************************************************************)
(* MempoolMonitor, and Monitor.start, Monitor.stop and its two intervals   *)
(***************************************************************************)
VARIABLES
    pendingTransactions,  \* MempoolMonitor.pendingTransactions: its entries
                          \* (hash, timestamp) in insertion order
    processedHashes,      \* MempoolMonitor.processedHashes
    mempoolSize,          \* MempoolMonitor.mempoolSize
    mpPc,                 \* where each handlePendingTransaction call stands
    mpHash,               \* the hash it was notified of
    isMonitoring,         \* Monitor.isMonitoring
    intervalsStarted,     \* whether start() has created the reorg and the
                          \* gas price interval
    lastBlockHash,        \* lastBlockHash of the reorg interval
    monEvent,             \* the event the Monitor emitted in the last step
    lastEvicted           \* the entries enforceMaxSize removed in the last
                          \* step (history)

mempoolVars == <<pendingTransactions, processedHashes, mempoolSize, mpPc, mpHash,
                 isMonitoring, intervalsStarted, lastBlockHash, monEvent,
                 lastEvicted>>

\* bot.config.monitor.mempoolSize of the configuration explored
maxMempoolSize == 2
\* cleanup removes entries older than maxAge (seconds) and clears
\* processedHashes above ProcessedHashesCeiling.
maxAge == 60
ProcessedHashesCeiling == 10000
NumMempoolCalls == 2
MempoolCalls == 1 .. NumMempoolCalls
\* Date.now() of this component advances by the cleanup interval (seconds).
cleanupInterval == 30
MaxMempoolTime == 90
NoBlock == "null"
\* What getBlock('latest') resolves to.
LatestBlocks ==
    {b \in [hash : {"0xB1", "0xB2"}, parentHash : {"0xB0", "0xB1"}] :
        b.hash /= b.parentHash}

MempoolInit ==
    /\ pendingTransactions = <<>>
    /\ processedHashes = {}
    /\ mempoolSize = 0
    /\ mpPc = [c \in MempoolCalls |-> "idle"]
    /\ mpHash = [c \in MempoolCalls |-> NoHash]
    /\ isMonitoring = FALSE
    /\ intervalsStarted = FALSE
    /\ lastBlockHash = NoBlock
    /\ monEvent = "none"
    /\ lastEvicted = <<>>

\* The keys of a Map given as its entries.
MapKeys(entries) == {entries[i].hash : i \in 1 .. Len(entries)}

\* Map.set: a new key goes to the end, a key that is present keeps its
\* place and takes the new value.
MapSet(entries, h, t) ==
    IF h \in MapKeys(entries)
    THEN [i \in 1 .. Len(entries) |->
             IF entries[i].hash = h THEN [hash |-> h, timestamp |-> t]
             ELSE entries[i]]
    ELSE Append(entries, [hash |-> h, timestamp |-> t])

\* Map.delete of every key in hs.
MapDelete(entries, hs) == SelectSeq(entries, LAMBDA e : e.hash \notin hs)

\* Array.sort by timestamp: stable, entries of equal timestamp keep their
\* insertion order.
InsertByTimestamp(sorted, e) ==
    LET k == Cardinality({i \in 1 .. Len(sorted) :
                             sorted[i].timestamp <= e.timestamp})
    IN SubSeq(sorted, 1, k) \o <<e>> \o SubSeq(sorted, k + 1, Len(sorted))

RECURSIVE sortedTxs(_)
sortedTxs(entries) ==
    IF entries = <<>> THEN <<>>
    ELSE InsertByTimestamp(sortedTxs(SubSeq(entries, 1, Len(entries) - 1)),
                           entries[Len(entries)])

\* sortedTxs.slice(0, n) of enforceMaxSize, taking the newest entries
\* instead of the oldest.
toRemove_Newest(entries, size) ==
    LET sorted == sortedTxs(entries)
        n == Min(size - maxMempoolSize, Len(sorted))
    IN SubSeq(sorted, Len(sorted) - n + 1, Len(sorted))

\* sortedTxs.slice(0, this.mempoolSize - this.maxMempoolSize)
toRemove(entries, size) ==
    LET sorted == sortedTxs(entries)
    IN SubSeq(sorted, 1, Min(size - maxMempoolSize, Len(sorted)))

\* enforceMaxSize on a map and a counter: what it leaves and what it took.
enforceMaxSize(entries, size) ==
    LET removed == toRemove(entries, size)
    IN [entries |-> MapDelete(entries, MapKeys(removed)),
        size |-> size - Len(removed),
        evicted |-> removed]

\* handlePendingTransaction up to the await of getTransaction.
MempoolNotified(c, h) ==
    /\ isMonitoring
    /\ mpPc[c] = "idle"
    /\ IF h \in processedHashes
       THEN UNCHANGED <<processedHashes, mpPc, mpHash>>
       ELSE /\ processedHashes' = processedHashes \cup {h}
            /\ mpPc' = [mpPc EXCEPT ![c] = "fetch"]
            /\ mpHash' = [mpHash EXCEPT ![c] = h]
    /\ monEvent' = "none"
    /\ lastEvicted' = <<>>
    /\ UNCHANGED <<pendingTransactions, mempoolSize, isMonitoring,
                   intervalsStarted, lastBlockHash>>

\* getTransaction has settled (a rejection is caught and ends the call like
\* a transaction that was not found): the entry is stored with the time of
\* this moment, the counter goes up and the size limit is enforced. The
\* events of these lines are the MempoolMonitor's own, not the Monitor's.
MempoolFetched(c, found) ==
    /\ mpPc[c] = "fetch"
    /\ mpPc' = [mpPc EXCEPT ![c] = "idle"]
    /\ mpHash' = [mpHash EXCEPT ![c] = NoHash]
    /\ IF found
       THEN LET stored == MapSet(pendingTransactions, mpHash[c], now)
                counted == mempoolSize + 1
                enforced == enforceMaxSize(stored, counted)
            IN IF counted > maxMempoolSize
               THEN /\ pendingTransactions' = enforced.entries
                    /\ mempoolSize' = enforced.size
                    /\ lastEvicted' = enforced.evicted
               ELSE /\ pendingTransactions' = stored
                    /\ mempoolSize' = counted
                    /\ lastEvicted' = <<>>
       ELSE /\ lastEvicted' = <<>>
            /\ UNCHANGED <<pendingTransactions, mempoolSize>>
    /\ monEvent' = "none"
    /\ UNCHANGED <<processedHashes, isMonitoring, intervalsStarted, lastBlockHash>>

\* The cleanup interval of MempoolMonitor.start, cleared by its stop.
cleanup ==
    /\ isMonitoring
    /\ LET old == {pendingTransactions[i].hash : i \in
                      {j \in 1 .. Len(pendingTransactions) :
                          now - pendingTransactions[j].timestamp > maxAge}}
       IN /\ pendingTransactions' = MapDelete(pendingTransactions, old)
          /\ mempoolSize' = mempoolSize - Cardinality(old)
    /\ processedHashes' = IF Cardinality(processedHashes) > ProcessedHashesCeiling
                          THEN {} ELSE processedHashes
    /\ monEvent' = "none"
    /\ lastEvicted' = <<>>
    /\ UNCHANGED <<mpPc, mpHash, isMonitoring, intervalsStarted, lastBlockHash>>

\* Monitor.start: the listeners, MempoolMonitor.start and the intervals of
\* startReorgMonitoring and startGasPriceMonitoring. The intervals of the
\* first start are the ones followed.
MonitorStart ==
    /\ ~isMonitoring
    /\ isMonitoring' = TRUE
    /\ intervalsStarted' = TRUE
    /\ monEvent' = "started"
    /\ lastEvicted' = <<>>
    /\ UNCHANGED <<pendingTransactions, processedHashes, mempoolSize, mpPc, mpHash,
                   lastBlockHash, processedTxs, emitted>>

\* Monitor.stop with MempoolMonitor.stop: the listeners and the cleanup
\* interval go, the two maps and the two sets are cleared; mempoolSize and
\* the intervals of start are not touched.
MonitorStop ==
    /\ isMonitoring
    /\ pendingTransactions' = <<>>
    /\ processedHashes' = {}
    /\ processedTxs' = {}
    /\ emitted' = [h \in Hashes |-> 0]
    /\ isMonitoring' = FALSE
    /\ monEvent' = "stopped"
    /\ lastEvicted' = <<>>
    /\ UNCHANGED <<mempoolSize, mpPc, mpHash, intervalsStarted, lastBlockHash>>

\* One run of the reorg interval with getBlock('latest') resolving to
\* block (a rejection is caught and changes nothing).
ReorgCheck(block) ==
    /\ intervalsStarted
    /\ IF lastBlockHash /= NoBlock /\ block.parentHash /= lastBlockHash
       THEN /\ monEvent' = "reorg"
            /\ processedTxs' = {}
            /\ emitted' = [h \in Hashes |-> 0]
       ELSE /\ monEvent' = "none"
            /\ UNCHANGED <<processedTxs, emitted>>
    /\ lastBlockHash' = block.hash
    /\ lastEvicted' = <<>>
    /\ UNCHANGED <<pendingTransactions, processedHashes, mempoolSize, mpPc, mpHash,
                   isMonitoring, intervalsStarted>>

\* One run of the gas price interval whose two requests resolve.
GasPriceCheck ==
    /\ intervalsStarted
    /\ monEvent' = "gasUpdate"
    /\ lastEvicted' = <<>>
    /\ UNCHANGED <<pendingTransactions, processedHashes, mempoolSize, mpPc, mpHash,
                   isMonitoring, intervalsStarted, lastBlockHash, processedTxs,
                   emitted>>

(***************************************************************************)
(* RiskManager.dailyStats: updateTradeResult, checkDailyReset and          *)
(* checkDailyLossLimit, amounts in milli-ETH                               *)
(***************************************************************************)
VARIABLES
    today,         \* getCurrentDate(): the UTC date, counted in days
    dailyStats,    \* RiskManager.dailyStats: date, totalLoss, totalProfit
    lossOnDate,    \* the losses updateTradeResult was given since the UTC
                   \* date last changed (history)
    dailyOp,       \* the RiskManager operation of the last step
    dailyResult    \* what the last assessOpportunity returned

dailyVars == <<today, dailyStats, lossOnDate, dailyOp, dailyResult>>

\* parseEther(config.maxDailyLossETH || '1')
maxDailyLoss == 1000
\* result.profit of the trades explored, and how far the totals are followed
TradeProfits == {-600, 0, 400}
MaxTotal == 1800
MaxDays == 2

DailyInit ==
    /\ today = 0
    /\ dailyStats = [date |-> 0, totalLoss |-> 0, totalProfit |-> 0]
    /\ lossOnDate = 0
    /\ dailyOp = "none"
    /\ dailyResult = NoAssessment

\* dailyStats after checkDailyReset.
checkDailyReset ==
    IF today /= dailyStats.date
    THEN [date |-> today, totalLoss |-> 0, totalProfit |-> 0]
    ELSE dailyStats

checkDailyLossLimit(stats) ==
    [passed |-> maxDailyLoss - stats.totalLoss > 0, weight |-> 10, ratio |-> Absent]

\* updateTradeResult(result): a failed trade is not counted; a successful one
\* adds its profit to totalProfit, or its magnitude to totalLoss when it is
\* not positive. The date of dailyStats is not looked at.
updateTradeResult(result) ==
    /\ dailyStats.totalLoss < MaxTotal
    /\ dailyStats.totalProfit < MaxTotal
    /\ IF ~result.success
       THEN UNCHANGED <<dailyStats, lossOnDate>>
       ELSE IF result.profit > 0
       THEN /\ dailyStats' = [dailyStats EXCEPT !.totalProfit = @ + result.profit]
            /\ UNCHANGED lossOnDate
       ELSE /\ dailyStats' = [dailyStats EXCEPT !.totalLoss = @ - result.profit]
            /\ lossOnDate' = lossOnDate - result.profit
    /\ dailyOp' = "update"
    /\ UNCHANGED <<today, dailyResult>>

\* assessOpportunity for an opportunity whose other seven checks resolve to
\* `others`: checkDailyReset, then checkDailyLossLimit on the stats it left.
DailyAssess(others, throws) ==
    /\ dailyStats' = checkDailyReset
    /\ dailyResult' =
           assessOpportunity(
               [others EXCEPT !.dailyLossLimit = checkDailyLossLimit(checkDailyReset)],
               throws, rMax)
    /\ dailyOp' = "assess"
    /\ UNCHANGED <<today, lossOnDate>>

\* Midnight UTC.
DateChanges ==
    /\ today < MaxDays
    /\ today' = today + 1
    /\ lossOnDate' = 0
    /\ dailyOp' = "midnight"
    /\ UNCHANGED <<dailyStats, dailyResult>>

(***************************************************************************)
(* Executor: selectWallet, executeStandard and waitForConfirmation         *)
(***************************************************************************)
VARIABLES
    statsSubmitted,  \* Executor.stats.submitted
    pendingTxs,      \* the keys of Executor.pendingTxs
    xPc,             \* where each execute call stands
    xType,           \* opportunity.type of the call
    xWallet,         \* the wallet selectWallet returned to it
    xHash,           \* txResponse.hash once sendTransaction has resolved
    xChain,          \* what the chain does with the transaction awaited
    xElapsed,        \* Date.now() - startTime of waitForConfirmation (s)
    xReason,         \* the message of the error the call ended with
    selections       \* the wallets selectWallet returned, with whether the
                     \* selection was one for a burner (history)

execVars == <<statsSubmitted, pendingTxs, xPc, xType, xWallet, xHash, xChain,
              xElapsed, xReason, selections>>

NumExecCalls == 2
ExecCalls == 1 .. NumExecCalls
\* bot.wallets: the main wallet and config.wallets.burners
Burners == <<"burner0", "burner1">>
\* opportunity.type and riskAssessment.score of the calls explored
OppTypes == {"arbitrage", "sandwich"}
RiskScores == {5, 8}
\* maxWaitTime and the pause between two rounds, in seconds; the default of
\* 30 s is scaled down to three rounds.
maxWaitTime == 3
RoundPause == 1
\* The hash sendTransaction returns for the transaction of call e.
TxHash(e) == IF e = 1 THEN "0xa1" ELSE "0xb2"
\* What becomes of a transaction: it is mined, replaced, the wait for it is
\* rejected for another reason, or it is never mined.
ChainFates == {"mined", "replaced", "rejects", "stuck"}
\* The fields of the request buildTransaction returns.
TxRequestFields == {"from", "nonce", "gasPrice", "gasLimit", "value", "to", "data"}

ExecInit ==
    /\ statsSubmitted = 0
    /\ pendingTxs = {}
    /\ xPc = [e \in ExecCalls |-> "idle"]
    /\ xType = [e \in ExecCalls |-> "arbitrage"]
    /\ xWallet = [e \in ExecCalls |-> "main"]
    /\ xHash = [e \in ExecCalls |-> NoHash]
    /\ xChain = [e \in ExecCalls |-> "none"]
    /\ xElapsed = [e \in ExecCalls |-> 0]
    /\ xReason = [e \in ExecCalls |-> NoReason]
    /\ selections = <<>>

\* Whether selectWallet looks for a burner.
WantsBurner(type, score) == score > 7 \/ type = "sandwich"

selectWallet(type, score, submitted) ==
    IF WantsBurner(type, score) /\ Len(Burners) > 0
    THEN Burners[(submitted % Len(Burners)) + 1]
    ELSE "main"

\* execute up to the awaits of buildTransaction and simulate.
ExecuteCall(e, type, score) ==
    /\ xPc[e] = "idle"
    /\ xType' = [xType EXCEPT ![e] = type]
    /\ xWallet' = [xWallet EXCEPT ![e] = selectWallet(type, score, statsSubmitted)]
    /\ selections' = Append(selections,
                            [burner |-> WantsBurner(type, score),
                             wallet |-> selectWallet(type, score, statsSubmitted)])
    /\ xPc' = [xPc EXCEPT ![e] = "simulate"]
    /\ UNCHANGED <<statsSubmitted, pendingTxs, xHash, xChain, xElapsed, xReason>>

\* The simulation gate: the call returns, or goes on to executeSandwich, or
\* to executeStandard, which counts the submission before it signs.
ExecuteGate(e, passes) ==
    /\ xPc[e] = "simulate"
    /\ IF ~passes
       THEN /\ xPc' = [xPc EXCEPT ![e] = "rejected"]
            /\ UNCHANGED statsSubmitted
       ELSE IF xType[e] = "sandwich"
       THEN /\ xPc' = [xPc EXCEPT ![e] = "sandwich"]
            /\ UNCHANGED statsSubmitted
       ELSE /\ xPc' = [xPc EXCEPT ![e] = "send"]
            /\ statsSubmitted' = statsSubmitted + 1
    /\ UNCHANGED <<pendingTxs, xType, xWallet, xHash, xChain, xElapsed, xReason,
                   selections>>

\* executeSandwich has settled: stats.submitted is not touched by it.
executeSandwich(e) ==
    /\ xPc[e] = "sandwich"
    /\ xPc' = [xPc EXCEPT ![e] = "returned"]
    /\ UNCHANGED <<statsSubmitted, pendingTxs, xType, xWallet, xHash, xChain,
                   xElapsed, xReason, selections>>

\* The finally block of executeStandard: `if (tx.hash)` on the request that
\* buildTransaction returned.
CleanUpPending(pending, e) ==
    IF "hash" \in TxRequestFields THEN pending \ {xHash[e]} ELSE pending

\* executeStandard leaves by return or by throw: the catch rethrows, the
\* finally block runs.
StandardEnds(e, how, reason) ==
    /\ xPc' = [xPc EXCEPT ![e] = how]
    /\ xReason' = [xReason EXCEPT ![e] = reason]
    /\ pendingTxs' = CleanUpPending(pendingTxs, e)

\* signTransaction and sendTransaction have settled: with a response the
\* hash goes to pendingTxs and waitForConfirmation starts its first round.
SendSettles(e, sent, fate) ==
    /\ xPc[e] = "send"
    /\ IF sent
       THEN /\ pendingTxs' = pendingTxs \cup {TxHash(e)}
            /\ xHash' = [xHash EXCEPT ![e] = TxHash(e)]
            /\ xChain' = [xChain EXCEPT ![e] = fate]
            /\ xPc' = [xPc EXCEPT ![e] = "wait"]
            /\ UNCHANGED xReason
       ELSE /\ StandardEnds(e, "thrown", "send failed")
            /\ UNCHANGED <<xHash, xChain>>
    /\ UNCHANGED <<statsSubmitted, xType, xWallet, xElapsed, selections>>

\* `await txResponse.wait(1)` settles: never for a transaction that is not
\* mined; with the receipt; with TRANSACTION_REPLACED, and the replacement
\* is waited for; or with another error, and getTransaction is asked.
WaitSettles(e, next) ==
    /\ xPc[e] = "wait"
    /\ xChain[e] /= "stuck"
    /\ CASE xChain[e] = "mined" ->
              /\ StandardEnds(e, "returned", NoReason)
              /\ UNCHANGED xChain
         [] xChain[e] = "replaced" ->
              /\ xPc' = [xPc EXCEPT ![e] = "waitReplacement"]
              /\ xChain' = [xChain EXCEPT ![e] = next]
              /\ UNCHANGED <<pendingTxs, xReason>>
         [] xChain[e] = "rejects" ->
              /\ xPc' = [xPc EXCEPT ![e] = "getTransaction"]
              /\ UNCHANGED <<xChain, pendingTxs, xReason>>
    /\ UNCHANGED <<statsSubmitted, xType, xWallet, xHash, xElapsed, selections>>

\* `return error.replacement.wait(1)` settles, unless the replacement is
\* never mined.
ReplacementSettles(e) ==
    /\ xPc[e] = "waitReplacement"
    /\ xChain[e] /= "stuck"
    /\ StandardEnds(e, "returned", NoReason)
    /\ UNCHANGED <<statsSubmitted, xType, xWallet, xHash, xChain, xElapsed,
                   selections>>

\* getTransaction has settled: without a transaction the wait throws, with
\* one it pauses.
GetTransactionSettles(e, found) ==
    /\ xPc[e] = "getTransaction"
    /\ IF found
       THEN /\ xPc' = [xPc EXCEPT ![e] = "pause"]
            /\ UNCHANGED <<pendingTxs, xReason>>
       ELSE StandardEnds(e, "thrown", "Transaction not found")
    /\ UNCHANGED <<statsSubmitted, xType, xWallet, xHash, xChain, xElapsed,
                   selections>>

\* The pause is over: the loop condition is read again, and the next round
\* awaits wait(1) anew or the wait throws its timeout.
PauseEnds(e, next) ==
    /\ xPc[e] = "pause"
    /\ LET elapsed == Min(xElapsed[e] + RoundPause, maxWaitTime)
       IN /\ xElapsed' = [xElapsed EXCEPT ![e] = elapsed]
          /\ IF elapsed < maxWaitTime
             THEN /\ xPc' = [xPc EXCEPT ![e] = "wait"]
                  /\ xChain' = [xChain EXCEPT ![e] = next]
                  /\ UNCHANGED <<pendingTxs, xReason>>
             ELSE /\ StandardEnds(e, "thrown", "Transaction confirmation timeout")
                  /\ UNCHANGED xChain
    /\ UNCHANGED <<statsSubmitted, xType, xWallet, xHash, selections>>

\* Time passes for the calls inside waitForConfirmation.
WaitingTimePasses ==
    /\ \E e \in ExecCalls :
           /\ xPc[e] \in {"wait", "waitReplacement", "getTransaction", "pause"}
           /\ xElapsed[e] < maxWaitTime
    /\ xElapsed' = [e \in ExecCalls |->
                       IF xPc[e] \in {"wait", "waitReplacement", "getTransaction",
                                      "pause"}
                       THEN Min(xElapsed[e] + 1, maxWaitTime)
                       ELSE xElapsed[e]]
    /\ UNCHANGED <<statsSubmitted, pendingTxs, xPc, xType, xWallet, xHash, xChain,
                   xReason, selections>>

\* The components that the pipeline leaves alone among the last ones.
lastRest == <<fateVars, mempoolVars, dailyVars, execVars>>

LastRestInit == FateInit /\ MempoolInit /\ DailyInit /\ ExecInit

lastVars == <<admVars, lastRest>>

LastInit == AdmInit /\ LastRestInit

\* The strategy stopping, the manual breaker operations and the providers.
lateVars == <<stratVars, pmVars, manVars, lastVars>>

LateInit == StratInit /\ PMInit /\ ManInit /\ LastInit

\* The components added after the Monitor and the RiskManager.
tailVars == <<sizerVars, fbVars, lateVars>>

TailInit == SizerInit /\ FlashbotsInit /\ LateInit

\* The components that a specification leaves alone besides the breaker,
\* the nonces and the pipeline.
restVars == <<monVars, riskVars, tailVars>>

RestInit == MonInit /\ RiskInit /\ TailInit

vars == <<now, cbVars, nonceVars, botVars, restVars>>

(***************************************************************************)
(* The breaker on its own, driven by arbitrary callers                     *)
(***************************************************************************)
\* handleOpportunity, the one caller of recordFailure, passes no strategy.
RecordFailure ==
    /\ failures < MaxFailures
    /\ recordFailure(NoStrategy)
    /\ UNCHANGED <<now, nonceVars, botVars, restVars>>

RecordSuccess == recordSuccess /\ UNCHANGED <<now, nonceVars, botVars, restVars>>

AttemptRecovery == attemptRecovery /\ UNCHANGED <<now, nonceVars, botVars, restVars>>

Tick == AdvanceClock /\ UNCHANGED <<cbVars, nonceVars, botVars, restVars>>

\* The nonce counter stays as constructed.
BreakerInit ==
    /\ now = 0
    /\ CBInit
    /\ NonceInit
    /\ chainPending = [w \in Wallets |-> 0]
    /\ BotInit
    /\ RestInit
    /\ minProfitETH = DefaultMinProfit

BreakerNext ==
    \/ RecordFailure
    \/ RecordSuccess
    \/ AttemptRecovery
    \/ Tick

SpecBreaker == BreakerInit /\ [][BreakerNext]_vars

(***************************************************************************)
(* Concurrent buildTransaction calls reserving nonces                      *)
(***************************************************************************)
BuildCallsGetNonce ==
    \E c \in Callers, w \in Wallets, plan \in PlanKinds :
        BuildPlan(c, w, plan) /\ UNCHANGED <<now, cbVars, botVars, restVars>>

NonceReset ==
    \E w \in Wallets :
        resetNonce(w) /\ UNCHANGED <<now, cbVars, botVars, restVars>>

ChainAnswers ==
    \E c \in Callers : GetNonceResume(c) /\ UNCHANGED <<now, cbVars, botVars, restVars>>

NonceSpecInit ==
    /\ now = 0
    /\ CBInit
    /\ NonceInit
    /\ BotInit
    /\ RestInit
    /\ minProfitETH = DefaultMinProfit

NonceNext == BuildCallsGetNonce \/ ChainAnswers \/ NonceReset

SpecNonce == NonceSpecInit /\ [][NonceNext]_vars

(***************************************************************************)
(* The pipeline: opportunities, the breaker's timer and the clock          *)
(***************************************************************************)
\* What the pipeline leaves alone besides the clock and the nonces.
pipeRest == <<monVars, riskVars, sizerVars, fbVars, stratVars, pmVars,
              manVars, lastRest>>

OpportunityArrives ==
    /\ NoneReturned
    /\ \E h \in Handlers, opp \in Opportunities : HandleOpportunity(h, opp)
    /\ halfOpenAdmitted' = AdmittedAfter
    /\ UNCHANGED <<now, nonceVars, pipeRest>>

AssessmentSettles ==
    /\ NoneReturned
    /\ \E h \in Handlers, a \in Assessments, logThrows \in BOOLEAN :
          AssessReturns(h, a, logThrows)
    /\ halfOpenAdmitted' = AdmittedAfter
    /\ UNCHANGED <<now, nonceVars, pipeRest>>

RejectionSettles ==
    /\ NoneReturned
    /\ \E h \in Handlers, throws \in BOOLEAN : RejectionRecorded(h, throws)
    /\ halfOpenAdmitted' = AdmittedAfter
    /\ UNCHANGED <<now, nonceVars, pipeRest>>

BuildSettles ==
    /\ NoneReturned
    /\ \E h \in Handlers, throws \in BOOLEAN : BuildReturns(h, throws)
    /\ halfOpenAdmitted' = AdmittedAfter
    /\ UNCHANGED <<now, nonceVars, pipeRest>>

SimulationSettles ==
    /\ NoneReturned
    /\ \E h \in Handlers, r \in SimulateTransactionResults, k \in Kinds :
          SimulateReturns(h, r, k)
    /\ halfOpenAdmitted' = AdmittedAfter
    /\ UNCHANGED <<now, nonceVars, pipeRest>>

DispatchSettles ==
    /\ NoneReturned
    /\ \E h \in Handlers, o \in DispatchFailures \cup {"success"},
          profitThrows \in BOOLEAN : DispatchReturns(h, o, profitThrows)
    /\ halfOpenAdmitted' = AdmittedAfter
    /\ UNCHANGED <<now, nonceVars, pipeRest>>

SuccessSettles ==
    /\ NoneReturned
    /\ \E h \in Handlers, throws \in BOOLEAN : SuccessRecorded(h, throws)
    /\ halfOpenAdmitted' = AdmittedAfter
    /\ UNCHANGED <<now, nonceVars, pipeRest>>

FailureSettles ==
    /\ NoneReturned
    /\ \E h \in Handlers, throws \in BOOLEAN : FailureRecorded(h, throws)
    /\ halfOpenAdmitted' = AdmittedAfter
    /\ UNCHANGED <<now, nonceVars, pipeRest>>

CallForgotten ==
    /\ \E h \in Handlers : Forget(h)
    /\ halfOpenAdmitted' = AdmittedAfter
    /\ UNCHANGED <<now, nonceVars, pipeRest>>

BreakerTimerFires ==
    /\ NoneReturned
    /\ attemptRecovery
    /\ halfOpenAdmitted' = AdmittedAfter
    /\ UNCHANGED <<now, nonceVars, botVars, pipeRest>>

TimePasses ==
    /\ NoneReturned
    /\ now < MaxBotTicks * TickMinutes
    /\ AdvanceClock
    /\ UNCHANGED <<cbVars, nonceVars, botVars, restVars>>

\* A strategy emits 'error'.
StrategyErrors ==
    /\ \E s \in StrategyNames : handleStrategyError(s)
    /\ UNCHANGED <<now, cbVars, nonceVars, botVars, monVars, riskVars,
                   sizerVars, fbVars, pmVars, manVars, lastVars>>

Init ==
    /\ now = 0
    /\ CBInit
    /\ NonceInit
    /\ chainPending = [w \in Wallets |-> 0]
    /\ BotInit
    /\ RestInit

Next ==
    \/ OpportunityArrives
    \/ AssessmentSettles
    \/ RejectionSettles
    \/ BuildSettles
    \/ SimulationSettles
    \/ DispatchSettles
    \/ SuccessSettles
    \/ FailureSettles
    \/ CallForgotten
    \/ BreakerTimerFires
    \/ TimePasses
    \/ StrategyErrors

Spec == Init /\ [][Next]_vars

(***************************************************************************)
(* Notifications reaching the Monitor                                      *)
(***************************************************************************)
PendingTxNotified ==
    /\ \E c \in PendingCalls, h \in Hashes : PendingNotified(c, h)
    /\ UNCHANGED <<now, cbVars, nonceVars, botVars, riskVars, tailVars>>

TransactionFetched ==
    /\ \E c \in PendingCalls, found \in BOOLEAN : PendingFetched(c, found)
    /\ UNCHANGED <<now, cbVars, nonceVars, botVars, riskVars, tailVars>>

PendingTxDecoded ==
    /\ \E c \in PendingCalls, decoded \in BOOLEAN : PendingDecoded(c, decoded)
    /\ UNCHANGED <<now, cbVars, nonceVars, botVars, riskVars, tailVars>>

NewBlockNotified ==
    /\ \E c \in BlockCalls, h \in Hashes : BlockNotified(c, h)
    /\ UNCHANGED <<now, cbVars, nonceVars, botVars, riskVars, tailVars>>

BlockArrived ==
    /\ \E c \in BlockCalls, found \in BOOLEAN : BlockFetched(c, found)
    /\ UNCHANGED <<now, cbVars, nonceVars, botVars, riskVars, tailVars>>

BlockTxDecoded ==
    /\ \E c \in BlockCalls, decoded \in BOOLEAN : BlockDecoded(c, decoded)
    /\ UNCHANGED <<now, cbVars, nonceVars, botVars, riskVars, tailVars>>

BlockHandled ==
    /\ \E c \in BlockCalls : BlockDone(c)
    /\ UNCHANGED <<now, cbVars, nonceVars, botVars, riskVars, tailVars>>

ChainReorganized ==
    ReorgDetected /\ UNCHANGED <<now, cbVars, nonceVars, botVars, riskVars, tailVars>>

MonitorInit ==
    /\ now = 0
    /\ CBInit
    /\ NonceInit
    /\ chainPending = [w \in Wallets |-> 0]
    /\ BotInit
    /\ minProfitETH = DefaultMinProfit
    /\ RestInit

MonitorNext ==
    \/ PendingTxNotified
    \/ TransactionFetched
    \/ PendingTxDecoded
    \/ NewBlockNotified
    \/ BlockArrived
    \/ BlockTxDecoded
    \/ BlockHandled
    \/ ChainReorganized

SpecMonitor == MonitorInit /\ [][MonitorNext]_vars

(***************************************************************************)
(* assessOpportunity applied to every outcome of the checks                *)
(***************************************************************************)
OpportunityAssessed ==
    AssessOpportunity /\ UNCHANGED <<now, cbVars, nonceVars, botVars, monVars, tailVars>>

RiskSpecInit ==
    /\ now = 0
    /\ CBInit
    /\ NonceInit
    /\ chainPending = [w \in Wallets |-> 0]
    /\ BotInit
    /\ minProfitETH = DefaultMinProfit
    /\ MonInit
    /\ TailInit
    /\ rChecks \in CheckResults
    /\ rThrows \in BOOLEAN
    /\ rMax \in MaxRiskScores
    /\ rPc = "idle"
    /\ rResult = NoAssessment

RiskNext == OpportunityAssessed

SpecRisk == RiskSpecInit /\ [][RiskNext]_vars

(***************************************************************************)
(* calculateRiskScore as checks of one opportunity fail one by one         *)
(***************************************************************************)
OneMoreCheckFails ==
    /\ \E i \in 1 .. Len(CheckNames) :
          \E failed \in FailedResults(CheckNames[i], rChecks[CheckNames[i]]) :
              CheckFails(CheckNames[i], failed)
    /\ UNCHANGED <<now, cbVars, nonceVars, botVars, monVars, tailVars>>

ScoreInit ==
    /\ RiskSpecInit
    /\ rThrows = FALSE
    /\ rMax = 7

SpecScore == ScoreInit /\ [][OneMoreCheckFails]_vars

(***************************************************************************)
(* calculatePositionSize applied to every input                            *)
(***************************************************************************)
PositionSized ==
    /\ CalculatePositionSize
    /\ UNCHANGED <<now, cbVars, nonceVars, botVars, monVars, riskVars, fbVars, lateVars>>

SizerSpecInit ==
    /\ now = 0
    /\ CBInit
    /\ NonceInit
    /\ chainPending = [w \in Wallets |-> 0]
    /\ BotInit
    /\ minProfitETH = DefaultMinProfit
    /\ MonInit
    /\ RiskInit
    /\ FlashbotsInit
    /\ LateInit
    /\ sIn \in SizerInputs
    /\ sPc = "idle"
    /\ sResult = Absent

SpecSizer == SizerSpecInit /\ [][PositionSized]_vars

(***************************************************************************)
(* Bundles sent through the FlashbotsProvider                              *)
(***************************************************************************)
BundleSent ==
    /\ SendBundle
    /\ UNCHANGED <<now, cbVars, nonceVars, botVars, monVars, riskVars, sizerVars, lateVars>>

SimulationAnswers ==
    /\ \E sim \in BundleSims, throws, logThrows \in BOOLEAN :
          BundleSimulated(sim, throws, logThrows)
    /\ UNCHANGED <<now, cbVars, nonceVars, botVars, monVars, riskVars, sizerVars, lateVars>>

RelayAnswers ==
    /\ \E throws \in BOOLEAN : BundleSubmitted(throws)
    /\ UNCHANGED <<now, cbVars, nonceVars, botVars, monVars, riskVars, sizerVars, lateVars>>

InclusionKnown ==
    /\ \E included, throws \in BOOLEAN : BundleWaited(included, throws)
    /\ UNCHANGED <<now, cbVars, nonceVars, botVars, monVars, riskVars, sizerVars, lateVars>>

StatsAnswer ==
    /\ BundleStatsFetched
    /\ UNCHANGED <<now, cbVars, nonceVars, botVars, monVars, riskVars, sizerVars, lateVars>>

FlashbotsSpecInit ==
    /\ now = 0
    /\ CBInit
    /\ NonceInit
    /\ chainPending = [w \in Wallets |-> 0]
    /\ BotInit
    /\ minProfitETH = DefaultMinProfit
    /\ MonInit
    /\ RiskInit
    /\ SizerInit
    /\ LateInit
    /\ fbInitialized \in BOOLEAN
    /\ fbPc = "idle"
    /\ fbSim = NoBundleSim
    /\ fbSent = 0
    /\ fbResult = "none"
    /\ bundleStats = [submitted |-> 0, included |-> 0, failed |-> 0]

FlashbotsNext ==
    \/ BundleSent
    \/ SimulationAnswers
    \/ RelayAnswers
    \/ InclusionKnown
    \/ StatsAnswer

SpecFlashbots == FlashbotsSpecInit /\ [][FlashbotsNext]_vars

(***************************************************************************)
(* The provider manager: fallback calls and health checks                  *)
(***************************************************************************)
FallbackCalled ==
    /\ ExecuteWithFallback
    /\ UNCHANGED <<now, cbVars, nonceVars, botVars, monVars, riskVars,
                   sizerVars, fbVars, stratVars, manVars, lastVars>>

ProviderAnswers ==
    /\ \E success \in BOOLEAN : ProviderSettles(success)
    /\ UNCHANGED <<now, cbVars, nonceVars, botVars, monVars, riskVars,
                   sizerVars, fbVars, stratVars, manVars, lastVars>>

FallbackSettled ==
    /\ FallbackReturned
    /\ UNCHANGED <<now, cbVars, nonceVars, botVars, monVars, riskVars,
                   sizerVars, fbVars, stratVars, manVars, lastVars>>

HealthChecked ==
    /\ \E n \in ProviderNames, o \in HealthCheckOutcomes :
          performHealthCheck(n, o)
    /\ UNCHANGED <<now, cbVars, nonceVars, botVars, monVars, riskVars,
                   sizerVars, fbVars, stratVars, manVars, lastVars>>

ProviderSpecInit ==
    /\ now = 0
    /\ CBInit
    /\ NonceInit
    /\ chainPending = [w \in Wallets |-> 0]
    /\ BotInit
    /\ RestInit
    /\ minProfitETH = DefaultMinProfit

ProviderNext ==
    \/ FallbackCalled
    \/ ProviderAnswers
    \/ FallbackSettled
    \/ HealthChecked

SpecProvider == ProviderSpecInit /\ [][ProviderNext]_vars

(***************************************************************************)
(* The breaker with its manual operations: MEVBot.start enables it,        *)
(* MEVBot.stop disables it, reset is public                                *)
(***************************************************************************)
\* The clock of this specification advances by half a cooldown.
HalfCooldown == cooldownMinutes \div 2
MaxManualTicks == 3
\* recordFailure is explored up to this value of `failures`, and trip()
\* while fewer timers than MaxTimers are pending.
MaxManualFailures == 6
MaxTimers == 2

\* What the manual specification leaves alone.
manualRest == <<nonceVars, botVars, monVars, riskVars, sizerVars, fbVars,
                stratVars, pmVars, lastVars>>

BreakerFails ==
    /\ failures < MaxManualFailures
    /\ Len(timers) < MaxTimers
    /\ recordFailure(NoStrategy)
    /\ openSince' = OpenSinceAfter
    /\ UNCHANGED <<now, manualRest>>

BreakerSucceeds ==
    /\ recordSuccess
    /\ openSince' = OpenSinceAfter
    /\ UNCHANGED <<now, manualRest>>

CooldownExpires ==
    /\ attemptRecovery
    /\ openSince' = OpenSinceAfter
    /\ UNCHANGED <<now, manualRest>>

BotStarts ==
    /\ enable
    /\ openSince' = OpenSinceAfter
    /\ UNCHANGED <<now, manualRest>>

BotStops ==
    /\ disable
    /\ openSince' = OpenSinceAfter
    /\ UNCHANGED <<now, manualRest>>

BreakerReset ==
    /\ reset
    /\ openSince' = OpenSinceAfter
    /\ UNCHANGED <<now, manualRest>>

ClockAdvances ==
    /\ now < MaxManualTicks * HalfCooldown
    /\ ~TimerDue
    /\ now' = now + HalfCooldown
    /\ UNCHANGED <<cbVars, openSince, manualRest>>

ManualNext ==
    \/ BreakerFails
    \/ BreakerSucceeds
    \/ CooldownExpires
    \/ BotStarts
    \/ BotStops
    \/ BreakerReset
    \/ ClockAdvances

SpecManual == BreakerInit /\ [][ManualNext]_vars

(***************************************************************************)
(* Executor.execute calls building, then submitting or abandoning a plan   *)
(***************************************************************************)
\* The calls are numbered in the order in which they reach buildTransaction.
PlanBuilt ==
    \E c \in Callers, w \in Wallets, plan \in PlanKinds :
        /\ \A d \in Callers : d < c => gnPc[d] /= "idle"
        /\ BuildPlan(c, w, plan)
        /\ UNCHANGED <<now, cbVars, botVars, restVars>>

SimulationGateRejects ==
    \E c \in Callers :
        PlanAbandoned(c) /\ UNCHANGED <<now, cbVars, botVars, monVars, riskVars,
                                        sizerVars, fbVars, stratVars, pmVars,
                                        manVars, admVars, mempoolVars, dailyVars,
                                        execVars>>

PlanDispatched ==
    \E c \in Callers :
        PlanSubmitted(c) /\ UNCHANGED <<now, cbVars, botVars, monVars, riskVars,
                                        sizerVars, fbVars, stratVars, pmVars,
                                        manVars, admVars, mempoolVars, dailyVars,
                                        execVars>>

PlanNext ==
    \/ PlanBuilt
    \/ ChainAnswers
    \/ SimulationGateRejects
    \/ PlanDispatched

PlanSpecInit ==
    /\ NonceSpecInit
    /\ chainPending = [w \in Wallets |-> 0]

SpecPlan == PlanSpecInit /\ [][PlanNext]_vars

(***************************************************************************)
(* The MempoolMonitor under a Monitor that is started and stopped          *)
(***************************************************************************)
\* What the mempool specification leaves alone.
mempoolRest == <<cbVars, nonceVars, botVars, riskVars, sizerVars, fbVars,
                 stratVars, pmVars, manVars, admVars, fateVars, dailyVars,
                 execVars>>
monitorCalls == <<pPc, pHash, bPc, bHash, orderVars>>

MonitorStarted ==
    MonitorStart /\ UNCHANGED <<now, monitorCalls, mempoolRest>>

MonitorStopped ==
    MonitorStop /\ UNCHANGED <<now, monitorCalls, mempoolRest>>

MempoolTxNotified ==
    \E c \in MempoolCalls, h \in Hashes :
        /\ \A d \in MempoolCalls : d < c => mpPc[d] /= "idle"
        /\ MempoolNotified(c, h)
        /\ UNCHANGED <<now, monVars, mempoolRest>>

MempoolTxFetched ==
    \E c \in MempoolCalls, found \in BOOLEAN :
        MempoolFetched(c, found) /\ UNCHANGED <<now, monVars, mempoolRest>>

MempoolCleaned ==
    cleanup /\ UNCHANGED <<now, monVars, mempoolRest>>

ReorgChecked ==
    \E block \in LatestBlocks :
        ReorgCheck(block) /\ UNCHANGED <<now, monitorCalls, mempoolRest>>

GasPriceChecked ==
    GasPriceCheck /\ UNCHANGED <<now, monitorCalls, mempoolRest>>

MempoolTimePasses ==
    /\ now < MaxMempoolTime
    /\ now' = now + cleanupInterval
    /\ monEvent' = "none"
    /\ lastEvicted' = <<>>
    /\ UNCHANGED <<pendingTransactions, processedHashes, mempoolSize, mpPc, mpHash,
                   isMonitoring, intervalsStarted, lastBlockHash, monVars,
                   mempoolRest>>

MempoolNext ==
    \/ MonitorStarted
    \/ MonitorStopped
    \/ MempoolTxNotified
    \/ MempoolTxFetched
    \/ MempoolCleaned
    \/ ReorgChecked
    \/ GasPriceChecked
    \/ MempoolTimePasses

SpecMempool == Init /\ [][MempoolNext]_vars

(***************************************************************************)
(* The daily loss limit over several UTC dates                             *)
(***************************************************************************)
\* What the daily specification leaves alone.
dailyRest == <<now, cbVars, nonceVars, botVars, monVars, riskVars, sizerVars,
               fbVars, stratVars, pmVars, manVars, admVars, fateVars,
               mempoolVars, execVars>>

TradeResultReported ==
    \E result \in [success : BOOLEAN, profit : TradeProfits] :
        updateTradeResult(result) /\ UNCHANGED dailyRest

DailyAssessed ==
    \E others \in {AllPassed, GasPriceTooHigh}, throws \in BOOLEAN :
        DailyAssess(others, throws) /\ UNCHANGED dailyRest

MidnightPasses == DateChanges /\ UNCHANGED dailyRest

DailyNext == TradeResultReported \/ DailyAssessed \/ MidnightPasses

SpecDaily == Init /\ [][DailyNext]_vars

(***************************************************************************)
(* Executor.execute calls selecting a wallet, submitting and waiting       *)
(***************************************************************************)
\* What the executor specification leaves alone.
execRest == <<now, cbVars, nonceVars, botVars, monVars, riskVars, sizerVars,
              fbVars, stratVars, pmVars, manVars, admVars, fateVars,
              mempoolVars, dailyVars>>

ExecuteCalled ==
    \E e \in ExecCalls, type \in OppTypes, score \in RiskScores :
        /\ \A d \in ExecCalls : d < e => xPc[d] /= "idle"
        /\ ExecuteCall(e, type, score)
        /\ UNCHANGED execRest

GateSettled ==
    \E e \in ExecCalls, passes \in BOOLEAN :
        ExecuteGate(e, passes) /\ UNCHANGED execRest

SandwichSettled ==
    \E e \in ExecCalls : executeSandwich(e) /\ UNCHANGED execRest

TransactionSent ==
    \E e \in ExecCalls, sent \in BOOLEAN, fate \in ChainFates :
        SendSettles(e, sent, fate) /\ UNCHANGED execRest

WaitSettled ==
    \E e \in ExecCalls, next \in {"mined", "stuck"} :
        WaitSettles(e, next) /\ UNCHANGED execRest

ReplacementSettled ==
    \E e \in ExecCalls : ReplacementSettles(e) /\ UNCHANGED execRest

TransactionLookedUp ==
    \E e \in ExecCalls, found \in BOOLEAN :
        GetTransactionSettles(e, found) /\ UNCHANGED execRest

PauseOver ==
    \E e \in ExecCalls, next \in ChainFates :
        PauseEnds(e, next) /\ UNCHANGED execRest

WaitTimePasses == WaitingTimePasses /\ UNCHANGED execRest

ExecNext ==
    \/ ExecuteCalled
    \/ GateSettled
    \/ SandwichSettled
    \/ TransactionSent
    \/ WaitSettled
    \/ ReplacementSettled
    \/ TransactionLookedUp
    \/ PauseOver
    \/ WaitTimePasses

SpecExecutor == Init /\ [][ExecNext]_vars

\* Every promise that can settle does, every timer fires and time passes.
SpecExecutorFair == SpecExecutor /\ WF_vars(ExecNext)

(***************************************************************************)
(* Claims about the breaker, checked under SpecBreaker                     *)
(***************************************************************************)
\* C3: with maxConsecutiveFailures = 5, five recordFailure calls in a row
\* that start from CLOSED with consecutiveFailures = 0 leave the breaker
\* OPEN; after the first four of them, the hourly threshold not reached, it
\* is still CLOSED.
C3_FiveFailuresOpen ==
    /\ run = maxConsecutiveFailures => state = OPEN
    /\ (run = maxConsecutiveFailures - 1 /\ ~runHourly) => state = CLOSED

C3_Witness ==
    /\ run = maxConsecutiveFailures
    /\ consecutiveFailures = maxConsecutiveFailures
    /\ state = OPEN
    /\ lastEvent = "tripped"

\* C4: a recordSuccess call while the breaker is HALF_OPEN makes the state
\* CLOSED and consecutiveFailures 0.
C4_SuccessInHalfOpenCloses ==
    [][(RecordSuccess /\ state = HALF_OPEN)
          => (state' = CLOSED /\ consecutiveFailures' = 0)]_vars

C4_Witness ==
    /\ lastEvent = "closed"
    /\ state = CLOSED
    /\ failures >= maxConsecutiveFailures

\* C5: a recordFailure call while the breaker is OPEN leaves it OPEN,
\* schedules no cooldown timer and emits no 'tripped' event, so the pending
\* OPEN to HALF_OPEN transition fires when it would have fired.
C5_FailureWhileOpenKeepsTimer ==
    [][(RecordFailure /\ state = OPEN)
          => (state' = OPEN /\ timers' = timers /\ lastEvent' = NoEvent)]_vars

C5_Witness ==
    /\ state = OPEN
    /\ timers /= <<>>
    /\ lastEvent = NoEvent
    /\ lastFailureTime = now
    /\ consecutiveFailures > maxConsecutiveFailures

\* C19: a failure recorded while the breaker is HALF_OPEN re-opens it and
\* starts a new cooldown timer, whatever consecutiveFailures and the
\* trailing-hour list hold.
C19_FailureInHalfOpenReopens ==
    [][(RecordFailure /\ state = HALF_OPEN) =>
           (state' = OPEN /\ Len(timers') = Len(timers) + 1)]_vars

\* The failures recorded in the 60 minutes before `now`.
FailuresInLastHour ==
    Cardinality({i \in DOMAIN hourlyFailures :
                    hourlyFailures[i] > now - HourMinutes})

\* C30: a recordFailure call that brings the failures of the trailing 60
\* minutes to maxFailuresPerHour opens the breaker, whatever
\* consecutiveFailures is; failures older than that do not count: below
\* both thresholds the state stays as it is.
C30_HourlyWindowTrips ==
    [][RecordFailure
          => /\ FailuresInLastHour + 1 >= maxFailuresPerHour => state' = OPEN
             /\ (/\ FailuresInLastHour + 1 < maxFailuresPerHour
                 /\ consecutiveFailures' < maxConsecutiveFailures)
                    => state' = state]_vars

\* The tenth failure of the hour has tripped the breaker with fewer than
\* five in a row, an older failure having dropped out of the window.
C30_Witness ==
    /\ state = OPEN
    /\ lastEvent = "tripped"
    /\ consecutiveFailures < maxConsecutiveFailures
    /\ Len(hourlyFailures) = maxFailuresPerHour
    /\ failures > maxFailuresPerHour

(***************************************************************************)
(* Claims about the breaker with manual operations, checked under          *)
(* SpecManual                                                              *)
(***************************************************************************)
\* C26: the breaker leaves an OPEN that a trip began for HALF_OPEN only when
\* the full cooldown has passed since that trip, also when the timer of an
\* earlier trip is still pending.
C26_FullCooldownAfterEachTrip ==
    [][(state = OPEN /\ state' = HALF_OPEN /\ openSince >= 0)
          => now >= openSince + cooldownMinutes]_vars

\* C27: whenever the breaker is OPEN a cooldown timer is pending, whichever
\* operation opened it.
C27_OpenHasPendingTimer == state = OPEN => timers /= <<>>

\* C28: recordFailure moves the state only into OPEN (from CLOSED or
\* HALF_OPEN), recordSuccess only from HALF_OPEN to CLOSED and the cooldown
\* timer only from OPEN to HALF_OPEN.
C28_OnlyTheFourTransitions ==
    [][/\ BreakerFails
          => (state' = state \/ (state /= OPEN /\ state' = OPEN))
       /\ BreakerSucceeds
          => (state' = state \/ (state = HALF_OPEN /\ state' = CLOSED))
       /\ CooldownExpires
          => (state' = state \/ (state = OPEN /\ state' = HALF_OPEN))]_vars

\* A cooldown timer is due while the breaker, enabled again after a trip,
\* is CLOSED.
C28_Witness ==
    /\ state = CLOSED
    /\ TimerDue
    /\ failures >= maxConsecutiveFailures

(***************************************************************************)
(* Claims about nonce reservation, checked under SpecNonce                 *)
(***************************************************************************)
ReturnedTo(w) == {c \in Callers : gnPc[c] = "done" /\ gnWallet[c] = w}

InFlight(w) == {c \in Callers : gnPc[c] = "awaitChain" /\ gnWallet[c] = w}

\* C1: once the concurrent getNonce calls for a wallet have all returned,
\* the nonces they returned are exactly start .. start + N - 1, start being
\* the chain's pending nonce: none twice, none skipped.
C1_NoncesExactRange ==
    \A w \in Wallets :
        InFlight(w) = {} =>
            /\ {gnResult[c] : c \in ReturnedTo(w)} =
                   chainPending[w] .. chainPending[w] + Cardinality(ReturnedTo(w)) - 1
            /\ \A c, d \in ReturnedTo(w) : c /= d => gnResult[c] /= gnResult[d]

\* The nonces handed out for wallet w, in hand-out order.
HandedOut(w) == SelectSeq(gnLog, LAMBDA c : gnWallet[c] = w)

\* C14: every nonce getNonce hands out for a wallet is strictly greater than
\* every nonce it handed out earlier for that wallet, also across resetNonce.
C14_NoncesStrictlyIncreasing ==
    \A w \in Wallets :
        \A i, j \in 1 .. Len(HandedOut(w)) :
            i < j => gnResult[HandedOut(w)[i]] < gnResult[HandedOut(w)[j]]

\* C15: the nonces of a plan are contiguous and belong to that plan alone: no
\* plan built afterwards for the same wallet carries any of them.
C15_PlanNoncesExclusive ==
    \A w \in Wallets :
        \A i, j \in 1 .. Len(HandedOut(w)) :
            i < j =>
                PlanNonces(HandedOut(w)[i]) \cap PlanNonces(HandedOut(w)[j]) = {}

(***************************************************************************)
(* Claims about the pipeline, checked under Spec                           *)
(***************************************************************************)
Returned(h) == hPc[h] = "done"

\* C2: a call that reached Executor.execute leaves exactly one report with
\* the breaker: recordSuccess once when the execution succeeded,
\* recordFailure once when it failed, also when the persistence or metrics
\* calls after the execution throw.
C2_OneReportPerOutcome ==
    \A h \in Handlers :
        Returned(h) =>
            /\ hResult[h] = "success" =>
                   hReports[h] = [success |-> 1, failure |-> 0]
            /\ hResult[h] = "failure" =>
                   hReports[h] = [success |-> 0, failure |-> 1]

\* C6: once the pipeline has recorded 5 consecutive failures the breaker is
\* OPEN, and an opportunity handed to handleOpportunity while it is OPEN is
\* rejected with reason `circuit-open` without reaching Executor.execute.
C6_SixthRejectedCircuitOpen ==
    /\ run = maxConsecutiveFailures => state = OPEN
    /\ \A h \in Handlers :
           (Returned(h) /\ hFate[h] = "skipped") =>
               /\ hReason[h] = "circuit-open"
               /\ hResult[h] = "none"
               /\ hPath[h] = "none"

\* C7: a call stands in a dispatch path of Executor.execute only with a
\* simulation that succeeded and whose profit is at least the configured
\* minimum; a call that has not passed that gate has entered no path.
C7_SimulateGateBeforeDispatch ==
    \A h \in Handlers :
        /\ hPc[h] = "dispatch" =>
               /\ hSim[h].success
               /\ hSim[h].profit >= minProfitETH
               /\ hPath[h] \in Kinds
        /\ hPc[h] \in {"idle", "assess", "recordRejected", "build",
                       "simulate"} => hPath[h] = "none"
        /\ (hPath[h] = "none" /\ Returned(h)) => hResult[h] /= "success"

C7_Witness ==
    \E h \in Handlers :
        /\ hPc[h] = "dispatch"
        /\ hPath[h] = "sandwich"
        /\ hSim[h] = [success |-> TRUE, profit |-> 0]
        /\ minProfitETH = 0

\* C8: an opportunity whose expiresAt had passed at the admission check is
\* rejected with reason `expired` and never reaches Executor.execute.
C8_ExpiredRejected ==
    \A h \in Handlers :
        hExpired[h] =>
            /\ hPc[h] \notin {"build", "simulate", "dispatch",
                              "recordSuccessful", "recordFailed"}
            /\ hResult[h] = "none"
            /\ Returned(h) => (hFate[h] = "rejected" /\ hReason[h] = "expired")

\* Every opportunity whose only failing check is the gas price.
OnlyGasPriceFails ==
    {c \in CheckResults :
        \A i \in 1 .. Len(CheckNames) :
            c[CheckNames[i]].passed <=> CheckNames[i] /= "gasPrice"}

NoCallYet == failures = 0 /\ \A h \in Handlers : hPc[h] = "idle"

\* C13: when the gas price check is the only failing check assessOpportunity
\* returns approved = false with reason "Gas price too high", and the
\* handleOpportunity call that receives this assessment never enters
\* Executor.execute.
C13_GasPriceRejectionStopsExecution ==
    /\ NoCallYet =>
           \A c \in OnlyGasPriceFails, mx \in MaxRiskScores :
               /\ ~assessOpportunity(c, FALSE, mx).approved
               /\ assessOpportunity(c, FALSE, mx).reason = "Gas price too high"
    /\ assessOpportunity(GasPriceTooHigh, FALSE, 7) \in Assessments
    /\ \A h \in Handlers :
           hReason[h] = "Gas price too high" =>
               /\ hFate[h] = "rejected"
               /\ hPc[h] \in {"recordRejected", "done"}
               /\ hPath[h] = "none"
               /\ hResult[h] = "none"

C13_Witness ==
    \E h \in Handlers :
        /\ Returned(h)
        /\ hFate[h] = "rejected"
        /\ hReason[h] = "Gas price too high"
        /\ hReports[h] = NoReports

\* The calls that are inside Executor.execute.
InExecute == {h \in Handlers : hPc[h] \in {"build", "simulate", "dispatch"}}

\* C17: the opportunities concurrently inside Executor.execute never exceed
\* the configured limit, here one below the number of opportunities that
\* the strategies emit at once.
C17_ConcurrentExecutionsBounded ==
    Cardinality(InExecute) <= NumHandlers - 1

\* C18: a call that does not end in a successful execution ends as a
\* rejection or a failed execution with a defined, non-empty reason.
C18_EveryEndingHasReason ==
    \A h \in Handlers :
        (Returned(h) /\ hResult[h] /= "success") =>
            /\ hFate[h] \in {"rejected", "executed"}
            /\ hReason[h] \notin {NoReason, "null", ""}

\* C21: every failure the pipeline records is counted for the strategy of
\* the opportunity, so that the strategy's count can reach
\* strategyDisableThreshold and handleStrategyError stops it.
C21_FailuresCountedPerStrategy ==
    [][failures' = failures + 1
          => \E s \in StrategyNames :
                strategyFailures'[s] = strategyFailures[s] + 1]_vars

\* Call h learns the outcome of its execution in this step.
OutcomeProduced(h) == hResult[h] = "none" /\ hResult'[h] /= "none"

\* C24: an execution outcome produced while the breaker is HALF_OPEN decides
\* its state: CLOSED with consecutiveFailures = 0 after a success, OPEN
\* after a failure.
C24_HalfOpenOutcomeDecides ==
    [][\A h \in Handlers :
          (state = HALF_OPEN /\ OutcomeProduced(h))
              => IF hResult'[h] = "success"
                 THEN state' = CLOSED /\ consecutiveFailures' = 0
                 ELSE state' = OPEN]_vars

\* C25: Executor.execute never starts while the breaker is OPEN.
C25_NoExecuteWhileOpen ==
    [][\A h \in Handlers :
          (hPc[h] = "assess" /\ hPc'[h] = "build") => state /= OPEN]_vars

\* C29: a call whose opportunity the risk assessment rejected leaves the
\* breaker's counters and state as they are, also when recording the
\* rejection throws.
C29_RejectionLeavesBreakerAlone ==
    [][\A h \in Handlers :
          (hPc[h] = "recordRejected" /\ hPc'[h] /= "recordRejected")
              => UNCHANGED <<state, failures, consecutiveFailures,
                             hourlyFailures>>]_vars

\* C36: while the breaker is HALF_OPEN at most one opportunity enters
\* Executor.execute before an outcome has moved the breaker to CLOSED or
\* OPEN.
C36_OneProbeInHalfOpen == halfOpenAdmitted <= 1

(***************************************************************************)
(* Claims about the Monitor, checked under SpecMonitor                     *)
(***************************************************************************)
\* C9: for any interleaving of pending-transaction and block notifications
\* the Monitor emits the `transaction` event at most once per hash while
\* the hash is in the dedup set.
C9_AtMostOneEmissionPerHash ==
    \A h \in Hashes : emitted[h] <= 1

\* C20: pending-transaction notifications are answered in arrival order: no
\* notification's events are emitted after those of a notification that
\* arrived later, whatever the order in which the fetches complete.
C20_EmittedInArrivalOrder == ~outOfOrder

(***************************************************************************)
(* Claims about assessOpportunity, checked under SpecRisk                  *)
(***************************************************************************)
NoCheckFailed == ~rThrows /\ Len(riskFactors(rChecks)) = 0

\* C10: the assessment is approved exactly when no check failed and the
\* score is strictly below maxRiskScore, 7 when none is configured; in every
\* other case approved is false and positionSize is null.
C10_ApprovedIffCleanAndBelowCeiling ==
    rPc = "done" =>
        /\ rResult.approved <=>
               /\ NoCheckFailed
               /\ ScoreBelow(rChecks, IF rMax = Absent THEN 7 ELSE rMax)
        /\ ~rResult.approved => rResult.positionSize = "null"

\* C11: with the other checks' results fixed, a check going from passed to
\* failed never lowers the value calculateRiskScore returns.
C11_FailureNeverLowersScore ==
    [][OneMoreCheckFails => RiskScoreLeq(rChecks, rChecks')]_vars

C11_Witness ==
    /\ rPc = "rescored"
    /\ ~rChecks["gasPrice"].passed
    /\ ~rChecks["profitRatio"].passed /\ rChecks["profitRatio"].weight = 9
    /\ rChecks["slippage"].passed /\ rChecks["slippage"].ratio = 2

(***************************************************************************)
(* Claims about calculatePositionSize, checked under SpecSizer             *)
(***************************************************************************)
\* C12: the size calculatePositionSize returns lies between minPositionSize
\* and the smaller of maxPositionSize and 90% of the balance, also on its
\* error path.
C12_PositionWithinBounds ==
    sPc = "done" =>
        /\ minPositionSize <= sResult
        /\ sResult <= Min(sIn.maxPositionSize, (CurrentBalance * 90) \div 100)

(***************************************************************************)
(* Claims about sendBundle, checked under SpecFlashbots                    *)
(***************************************************************************)
\* C16: sendBundle calls sendRawBundle only after a simulation that reports
\* no error and no reverting transaction; after a simulation that reports
\* one nothing is submitted and the result is success = false.
C16_SimulateBeforeRelay ==
    /\ fbSent > 0 => (fbSim.ran /\ ~fbSim.error /\ ~fbSim.firstRevert)
    /\ fbSent <= 1
    /\ (fbSim.ran /\ (fbSim.error \/ fbSim.firstRevert)) =>
           (fbSent = 0 /\ fbPc = "done" /\ fbResult = "false")

C16_Witness ==
    /\ fbSim = [ran |-> TRUE, error |-> FALSE, firstRevert |-> TRUE]
    /\ fbPc = "done"
    /\ fbSent = 0
    /\ fbResult = "false"
    /\ bundleStats.submitted > 0

(***************************************************************************)
(* Claims about the provider manager, checked under SpecProvider           *)
(***************************************************************************)
\* C22: a failed call that leaves a provider with at least 10 requests and
\* an error rate above 50% leaves its healthy flag false.
C22_UnhealthyFromTenRequests ==
    [][\A n \in ProviderNames :
          (/\ pmErrors'[n] = pmErrors[n] + 1
           /\ pmRequests'[n] >= MinRequests
           /\ ErrorRateTooHigh(pmRequests'[n], pmErrors'[n]))
              => ~pmHealthy'[n]]_vars

\* C23: executeWithFallback calls each provider at most once, the providers
\* that were healthy when it sorted before the unhealthy ones; it returns
\* the result of the provider it called last, a success ending the calls,
\* and it throws, once every provider was called, the last one's error.
C23_FallbackInHealthOrder ==
    /\ \A i, j \in DOMAIN efCalled : i < j => efCalled[i] /= efCalled[j]
    /\ \A i, j \in DOMAIN efCalled :
          i < j => ~(~efHealthyAtSort[efCalled[i]]
                        /\ efHealthyAtSort[efCalled[j]])
    /\ \A i \in DOMAIN efCalled :
          ~efHealthyAtSort[efCalled[i]]
              => \A n \in ProviderNames :
                    efHealthyAtSort[n]
                        => \E k \in 1 .. i - 1 : efCalled[k] = n
    /\ efResult.kind = "returned"
          => efResult.of = efCalled[Len(efCalled)]
    /\ efResult.kind = "threw"
          => /\ \A n \in ProviderNames :
                   \E i \in DOMAIN efCalled : efCalled[i] = n
             /\ efResult.of = efCalled[Len(efCalled)]
             /\ efResult.of = efLastError

\* Every provider failed, the one that was unhealthy at the sort last, while
\* it had the lower error rate.
C23_Witness ==
    /\ efResult.kind = "threw"
    /\ efHealthyAtSort[efCalled[1]]
    /\ ~efHealthyAtSort[efCalled[2]]
    /\ pmErrors[efCalled[2]] = 1
    /\ pmErrors[efCalled[1]] > 1

(***************************************************************************)
(* Claims about abandoned plans, checked under SpecPlan                    *)
(***************************************************************************)
\* The nonces carried by the transactions submitted from wallet w.
SubmittedNonces(w) ==
    UNION {PlanNonces(c) : c \in {d \in Callers : /\ gnWallet[d] = w
                                                  /\ planFate[d] = "submitted"}}

\* The wallet's lowest nonce that no submitted transaction carries.
LowestFree(w) ==
    CHOOSE n \in chainPending[w] .. chainPending[w] + NumCallers * BundleLength :
        /\ n \notin SubmittedNonces(w)
        /\ \A k \in chainPending[w] .. n - 1 : k \in SubmittedNonces(w)

\* No other call for the wallet of c still holds a plan that is neither
\* submitted nor abandoned.
OthersSettled(c) ==
    \A d \in Callers \ {c} :
        gnWallet[d] = gnWallet[c] => gnPc[d] = "idle" \/ planFate[d] /= "none"

\* C37: the nonce of a plan abandoned before submission is used again: a
\* plan submitted when no other plan of its wallet is outstanding starts at
\* the wallet's lowest nonce that no submitted transaction carries.
C37_AbandonedNonceReused ==
    [][\A c \in Callers :
          (planFate[c] = "none" /\ planFate'[c] = "submitted" /\ OthersSettled(c))
              => gnResult[c] = LowestFree(gnWallet[c])]_vars

(***************************************************************************)
(* Claims about the MempoolMonitor and the Monitor's life cycle, checked   *)
(* under SpecMempool                                                       *)
(***************************************************************************)
\* C31: after a reorg check that found the latest block's parentHash
\* different from the previous tip and emitted `reorg`, every cache is
\* empty: processedTxs and the mempool monitor's pendingTransactions and
\* processedHashes.
C31_ReorgEmptiesAllCaches ==
    monEvent = "reorg" =>
        /\ processedTxs = {}
        /\ pendingTransactions = <<>>
        /\ processedHashes = {}

\* C32: the pending-transaction cache never holds more than maxMempoolSize
\* entries once a handlePendingTransaction call has completed, and no entry
\* that enforceMaxSize evicted is newer than an entry it kept.
C32_CacheBoundedOldestEvicted ==
    /\ Len(pendingTransactions) <= maxMempoolSize
    /\ \A i \in 1 .. Len(lastEvicted), j \in 1 .. Len(pendingTransactions) :
           lastEvicted[i].timestamp <= pendingTransactions[j].timestamp

\* A full cache took one more transaction and gave up an older one.
C32_Witness ==
    /\ Len(pendingTransactions) = maxMempoolSize
    /\ Len(lastEvicted) = 1
    /\ \E j \in 1 .. Len(pendingTransactions) :
           lastEvicted[1].timestamp < pendingTransactions[j].timestamp

\* C38: once Monitor.stop() has resolved the Monitor emits no event until
\* start() is called again.
C38_SilentAfterStop ==
    ~isMonitoring => monEvent \in {"none", "stopped"}

\* C40: between the MempoolMonitor's operations mempoolSize is the number
\* of entries of pendingTransactions.
C40_CounterIsMapSize == mempoolSize = Len(pendingTransactions)

(***************************************************************************)
(* Claims about the daily loss limit, checked under SpecDaily              *)
(***************************************************************************)
\* C33: once the losses given to updateTradeResult on the current UTC date
\* total maxDailyLoss or more, an assessOpportunity call on that date that
\* returns from its try block is rejected with reason
\* `Daily loss limit reached`.
C33_DailyLossLimitRejects ==
    (/\ dailyOp = "assess"
     /\ lossOnDate >= maxDailyLoss
     /\ dailyResult.reason /= "Risk assessment error")
        => /\ ~dailyResult.approved
           /\ dailyResult.reason = "Daily loss limit reached"

(***************************************************************************)
(* Claims about the Executor, checked under SpecExecutor and, for          *)
(* termination, under SpecExecutorFair                                     *)
(***************************************************************************)
\* C34: every waitForConfirmation call ends: the execute call that entered
\* it returns or throws, also when the transaction is never mined.
C34_WaitTerminates ==
    \A e \in ExecCalls :
        (xPc[e] \in {"wait", "waitReplacement"}) ~> (xPc[e] \in {"returned", "thrown"})

\* The burner after w in the list of burners, the first one after the last.
NextBurner(w) ==
    LET i == CHOOSE k \in 1 .. Len(Burners) : Burners[k] = w
    IN Burners[(i % Len(Burners)) + 1]

\* The selections made for a burner, in order.
BurnerSelections == SelectSeq(selections, LAMBDA sel : sel.burner)

\* C35: a selection for a sandwich or a score above 7 returns a burner and
\* successive such selections go round the burners one after the other;
\* any other selection returns the main wallet.
C35_BurnersRotate ==
    /\ \A i \in 1 .. Len(selections) :
           IF selections[i].burner
           THEN \E k \in 1 .. Len(Burners) : selections[i].wallet = Burners[k]
           ELSE selections[i].wallet = "main"
    /\ \A i \in 1 .. Len(BurnerSelections) - 1 :
           BurnerSelections[i + 1].wallet = NextBurner(BurnerSelections[i].wallet)

\* C39: once executeStandard has returned or thrown, the hash of the
\* transaction it submitted is not a key of pendingTxs.
C39_PendingEntryRemoved ==
    \A e \in ExecCalls :
        (xPc[e] \in {"returned", "thrown"} /\ xHash[e] /= NoHash)
            => xHash[e] \notin pendingTxs

=============================================================================
